---- MODULE Spec2Model ----
(***************************************************************************)
(* A model of nessclient: the Alarm state machine (nessclient/alarm.py)    *)
(* and the Client session engine (nessclient/client.py).                   *)
(*                                                                         *)
(* The program state is kept in separate variables; every operation of the *)
(* program is a pure operator over a record of that state (the record `a`  *)
(* for the Alarm, the record `s` for the Client), so that the code between *)
(* two suspension points of a coroutine is one atomic action.              *)
(***************************************************************************)
EXTENDS Integers, Sequences, FiniteSets, TLC

None == "None"

(***************************************************************************)
(* Bounds of the model.                                                    *)
(***************************************************************************)
\* number of events the Alarm handles in one behaviour of SpecAlarm
MaxEvents == 3

(***************************************************************************)
(* nessclient/alarm.py                                                     *)
(***************************************************************************)
ArmingState ==
  {"UNKNOWN", "DISARMED", "ARMING", "EXIT_DELAY", "ARMED", "ENTRY_DELAY", "TRIGGERED"}

ArmingMode ==
  {"ARMED_AWAY", "ARMED_HOME", "ARMED_DAY", "ARMED_NIGHT", "ARMED_VACATION", "ARMED_HIGHEST"}

\* UnsetValue.VAL: "no mode given", distinct from None
UnsetValue == "UnsetValue"

\* ARM_DISARM_EVENTS_MAP.get(event_type, UnsetValue.VAL)
ARM_DISARM_EVENTS_MAP(event_type) ==
  IF event_type \in ArmingMode THEN event_type
  ELSE IF event_type = "DISARMED" THEN None
  ELSE UnsetValue

\* SystemStatusEvent.EventType
EventType ==
  {"UNSEALED", "SEALED", "ALARM", "ALARM_RESTORE", "MANUAL_EXCLUDE", "MANUAL_INCLUDE",
   "AUTO_EXCLUDE", "AUTO_INCLUDE", "TAMPER_UNSEALED", "TAMPER_NORMAL",
   "POWER_FAILURE", "POWER_NORMAL", "BATTERY_FAILURE", "BATTERY_NORMAL",
   "REPORT_FAILURE", "REPORT_NORMAL", "SUPERVISION_FAILURE", "SUPERVISION_NORMAL",
   "REAL_TIME_CLOCK", "ENTRY_DELAY_START", "ENTRY_DELAY_END", "EXIT_DELAY_START",
   "EXIT_DELAY_END", "ARMED_AWAY", "ARMED_HOME", "ARMED_DAY", "ARMED_NIGHT",
   "ARMED_VACATION", "ARMED_HIGHEST", "DISARMED", "ARMING_DELAYED",
   "OUTPUT_ON", "OUTPUT_OFF"}

\* StatusUpdate.RequestID values
ZONE_INPUT_UNSEALED == 0
ZONE_IN_ALARM == 5
ARMING == 14
RequestID == 0..18

\* ArmingUpdate.ArmingStatus
ArmingStatus ==
  {"AREA_1_ARMED", "AREA_2_ARMED", "AREA_1_FULLY_ARMED", "AREA_2_FULLY_ARMED",
   "MONITOR_ARMED", "DAY_MODE_ARMED", "ENTRY_DELAY_1_ON", "ENTRY_DELAY_2_ON",
   "MANUAL_EXCLUDE_MODE", "MEMORY_MODE", "DAY_ZONE_SELECT"}

\* len(self.zones): Alarm.__init__ creates range(16) zones
NumZones == 16

(***************************************************************************)
(* Events, as BaseEvent.decode produces them.  One record shape for all    *)
(* classes; the fields a class does not have are None / {}.                *)
(***************************************************************************)
SystemStatusEvent(type, zone) ==
  [cls |-> "SystemStatusEvent", type |-> type, zone |-> zone,
   request_id |-> -1, status |-> {}, included_zones |-> {}]

ArmingUpdate(status) ==
  [cls |-> "ArmingUpdate", type |-> None, zone |-> 0,
   request_id |-> ARMING, status |-> status, included_zones |-> {}]

ZoneUpdate(request_id, included_zones) ==
  [cls |-> "ZoneUpdate", type |-> None, zone |-> 0,
   request_id |-> request_id, status |-> {}, included_zones |-> included_zones]

\* MiscellaneousAlarmsUpdate, OutputsUpdate, ViewStateUpdate, ...
OtherStatusUpdate(request_id) ==
  [cls |-> "StatusUpdate", type |-> None, zone |-> 0,
   request_id |-> request_id, status |-> {}, included_zones |-> {}]

\* isinstance(event, StatusUpdate)
IsStatusUpdate(event) == event.cls \in {"ArmingUpdate", "ZoneUpdate", "StatusUpdate"}

(***************************************************************************)
(* The Alarm object as a record:                                           *)
(*   arming_state, arming_mode, zones      the fields of Alarm             *)
(*   infer                                 _infer_arming_state             *)
(*   state_calls, zone_calls               the calls made to the           *)
(*                                         on_state_change/on_zone_change  *)
(*                                         callbacks, in order             *)
(*   raised                                handle_event raised IndexError  *)
(***************************************************************************)
AlarmInit(infer) ==
  [arming_state |-> "UNKNOWN",
   arming_mode  |-> None,
   zones        |-> [i \in 1..NumZones |-> None],
   infer        |-> infer,
   state_calls  |-> <<>>,
   zone_calls   |-> <<>>,
   raised       |-> FALSE]

\* update_arming_state as it would be if the mode argument were dropped
update_arming_state_no_mode(a, state, mode) ==
  IF a.arming_state # state
  THEN [a EXCEPT !.arming_state = state,
                 !.state_calls = Append(@, <<state, a.arming_mode>>)]
  ELSE a

update_arming_state(a, state, mode) ==
  IF a.arming_state # state
  THEN LET m == IF mode # UnsetValue THEN mode ELSE a.arming_mode
       IN [a EXCEPT !.arming_state = state,
                    !.arming_mode = m,
                    !.state_calls = Append(@, <<state, m>>)]
  ELSE a

\* self.zones[zone_id - 1] with the indexing of a Python list of NumZones
\* elements: index -NumZones..-1 counts from the end, anything outside
\* -NumZones..NumZones-1 raises IndexError.  The result is the 1-based position.
ZoneIndex(zone_id) ==
  LET i == zone_id - 1
  IN IF i >= 0 /\ i < NumZones THEN i + 1
     ELSE IF i < 0 /\ i >= -NumZones THEN i + NumZones + 1
     ELSE 0

\* update_zone calling the callback whether or not the value changed
update_zone_always_calls(a, zone_id, state) ==
  LET k == ZoneIndex(zone_id)
  IN IF k = 0 THEN [a EXCEPT !.raised = TRUE]
     ELSE [a EXCEPT !.zones[k] = state,
                    !.zone_calls = Append(@, <<zone_id, state>>)]

update_zone(a, zone_id, state) ==
  LET k == ZoneIndex(zone_id)
  IN IF k = 0 THEN [a EXCEPT !.raised = TRUE]
     ELSE IF a.zones[k] # state
          THEN [a EXCEPT !.zones[k] = state,
                         !.zone_calls = Append(@, <<zone_id, state>>)]
          ELSE a

BoolStr(b) == IF b THEN "True" ELSE "False"

\* handle_arming_update without the branch of the inference mode
handle_arming_update_no_inference(a, update) ==
  IF a.arming_state = "TRIGGERED" THEN a
  ELSE IF update.status = {"AREA_1_ARMED"}
       THEN update_arming_state(a, "EXIT_DELAY", UnsetValue)
  ELSE IF "AREA_1_ARMED" \in update.status /\ "AREA_1_FULLY_ARMED" \in update.status
       THEN update_arming_state(a, "ARMED", UnsetValue)
  ELSE update_arming_state(a, "DISARMED", UnsetValue)

\* handle_arming_update without the test for TRIGGERED
handle_arming_update_while_triggered(a, update) ==
  IF update.status = {"AREA_1_ARMED"}
  THEN update_arming_state(a, "EXIT_DELAY", UnsetValue)
  ELSE IF "AREA_1_ARMED" \in update.status /\ "AREA_1_FULLY_ARMED" \in update.status
       THEN update_arming_state(a, "ARMED", UnsetValue)
  ELSE IF a.infer
       THEN IF a.arming_state = "UNKNOWN"
            THEN update_arming_state(a, "DISARMED", UnsetValue)
            ELSE a
  ELSE update_arming_state(a, "DISARMED", UnsetValue)

handle_arming_update(a, update) ==
  IF a.arming_state = "TRIGGERED" THEN a
  ELSE IF update.status = {"AREA_1_ARMED"}
       THEN update_arming_state(a, "EXIT_DELAY", UnsetValue)
  ELSE IF "AREA_1_ARMED" \in update.status /\ "AREA_1_FULLY_ARMED" \in update.status
       THEN update_arming_state(a, "ARMED", UnsetValue)
  ELSE IF a.infer
       THEN IF a.arming_state = "UNKNOWN"
            THEN update_arming_state(a, "DISARMED", UnsetValue)
            ELSE a
  ELSE update_arming_state(a, "DISARMED", UnsetValue)

RECURSIVE ZoneInputLoop(_, _, _)
ZoneInputLoop(a, update, i) ==
  IF i >= NumZones THEN a
  ELSE LET zone_id == i + 1
       IN ZoneInputLoop(update_zone(a, zone_id, BoolStr(zone_id \in update.included_zones)),
                        update, i + 1)

handle_zone_input_update(a, update) == ZoneInputLoop(a, update, 0)

\* handle_zone_alarm_update without the way back from TRIGGERED
handle_zone_alarm_update_no_revert(a, update) ==
  IF \E i \in 0..(NumZones - 1) : (i + 1) \in update.included_zones
  THEN update_arming_state(a, "TRIGGERED", UnsetValue)
  ELSE a

handle_zone_alarm_update(a, update) ==
  IF \E i \in 0..(NumZones - 1) : (i + 1) \in update.included_zones
  THEN update_arming_state(a, "TRIGGERED", UnsetValue)
  ELSE IF a.arming_state = "TRIGGERED"
       THEN update_arming_state(a, "UNKNOWN", UnsetValue)
       ELSE a

\* state_map of _handle_system_status_event; None for the types that map to
\* None, "absent" for the types that are no key of the map
state_map(event_type) ==
  CASE event_type = "ALARM"             -> "TRIGGERED"
    [] event_type = "ALARM_RESTORE"     -> "ARMED"
    [] event_type = "ENTRY_DELAY_START" -> "ENTRY_DELAY"
    [] event_type = "ENTRY_DELAY_END"   -> None
    [] event_type = "EXIT_DELAY_START"  -> "EXIT_DELAY"
    [] event_type = "EXIT_DELAY_END"    -> "ARMED"
    [] event_type \in ArmingMode        -> "ARMING"
    [] event_type = "DISARMED"          -> "DISARMED"
    [] event_type = "ARMING_DELAYED"    -> None
    [] OTHER                            -> "absent"

\* handle_system_status_event without the EXIT_DELAY_END guard
handle_system_status_event_any_exit_end(a, event) ==
  IF event.type = "ALARM_RESTORE" /\ a.arming_state = "DISARMED" THEN a
  ELSE IF event.type \in {"UNSEALED", "SEALED"}
       THEN update_zone(a, event.zone, BoolStr(event.type = "UNSEALED"))
  ELSE IF state_map(event.type) # "absent"
       THEN LET new_state == state_map(event.type)
            IN IF new_state = None THEN a
               ELSE update_arming_state(a, new_state, ARM_DISARM_EVENTS_MAP(event.type))
  ELSE a

\* handle_system_status_event without the ALARM_RESTORE-while-DISARMED guard
handle_system_status_event_no_guard(a, event) ==
  IF event.type = "EXIT_DELAY_END" /\ a.arming_state # "EXIT_DELAY" THEN a
  ELSE IF event.type \in {"UNSEALED", "SEALED"}
       THEN update_zone(a, event.zone, BoolStr(event.type = "UNSEALED"))
  ELSE IF state_map(event.type) # "absent"
       THEN LET new_state == state_map(event.type)
            IN IF new_state = None THEN a
               ELSE update_arming_state(a, new_state, ARM_DISARM_EVENTS_MAP(event.type))
  ELSE a

handle_system_status_event(a, event) ==
  IF event.type = "EXIT_DELAY_END" /\ a.arming_state # "EXIT_DELAY" THEN a
  ELSE IF event.type = "ALARM_RESTORE" /\ a.arming_state = "DISARMED" THEN a
  ELSE IF event.type \in {"UNSEALED", "SEALED"}
       THEN update_zone(a, event.zone, BoolStr(event.type = "UNSEALED"))
  ELSE IF state_map(event.type) # "absent"
       THEN LET new_state == state_map(event.type)
            IN IF new_state = None THEN a
               ELSE update_arming_state(a, new_state, ARM_DISARM_EVENTS_MAP(event.type))
  ELSE a

\* `raised` tells whether this call of handle_event raised
handle_event(a0, event) ==
  LET a == [a0 EXCEPT !.raised = FALSE]
  IN IF event.cls = "ArmingUpdate" THEN handle_arming_update(a, event)
     ELSE IF event.cls = "ZoneUpdate" /\ event.request_id = ZONE_INPUT_UNSEALED
          THEN handle_zone_input_update(a, event)
     ELSE IF event.cls = "ZoneUpdate" /\ event.request_id = ZONE_IN_ALARM
          THEN handle_zone_alarm_update(a, event)
     ELSE IF event.cls = "SystemStatusEvent" THEN handle_system_status_event(a, event)
     ELSE a


(***************************************************************************)
(* nessclient/client.py                                                    *)
(***************************************************************************)
\* more bounds of the model
\* frames the transport delivers to the receive loop in one behaviour
MaxFrames == 2
\* the `retries` argument of request_and_wait_status_update is in 1..MaxRetries
MaxRetries == 2
\* successful transport connects in one behaviour
MaxConnects == 2
\* the clock stops at MaxTime seconds
MaxTime == 32
\* update() cycles of the update loop in one behaviour
MaxUpdates == 1

\* Client(update_interval=1) of the test harness; the default is 60
update_interval == 1
\* the 30 of _should_reconnect
STALE_SLACK_SECONDS == 30
\* DELAY_SECONDS_BETWEEN_SENDS = 0.2, in tenths of a second
DELAY_TENTHS_BETWEEN_SENDS == 2

\* a time that is None
NoTime == 0 - 1
\* a pending-request slot that is None
NoFuture == <<>>
\* no command method was called
NoCall == [method |-> None, code |-> <<>>, output_id |-> 0,
           state |-> [enum |-> FALSE, value |-> FALSE]]
NoEvent == [cls |-> None, type |-> None, zone |-> 0,
            request_id |-> 0 - 1, status |-> {}, included_zones |-> {}]

\* request_and_wait_status_update callers
Requesters == {"r1", "r2"}
\* the three send_command coroutines update() gathers
UpdateSenders == {"u1", "u2", "u3"}
Senders == Requesters \cup UpdateSenders
\* coroutines that call _connect
Connectors == {"recv"} \cup Senders
Tasks == Connectors \cup {"upd", "closer"}

(***************************************************************************)
(* Commands are strings: sequences of characters.                          *)
(***************************************************************************)
Digits == <<"0", "1", "2", "3", "4", "5", "6", "7", "8", "9">>
IsDigit(c) == \E i \in 1..10 : Digits[i] = c
DigitVal(c) == (CHOOSE i \in 1..10 : Digits[i] = c) - 1
\* f"S{req_id.value:02}"
StatusCommand(req) == <<"S", Digits[(req \div 10) + 1], Digits[(req % 10) + 1]>>

\* is_status_request of send_command
is_status_request(command) ==
  /\ Len(command) = 3
  /\ command[1] = "S"
  /\ IsDigit(command[2]) /\ IsDigit(command[3])
  /\ DigitVal(command[2]) * 10 + DigitVal(command[3]) <= 18

\* int(command[1:])
CommandRequestID(command) == DigitVal(command[2]) * 10 + DigitVal(command[3])

(***************************************************************************)
(* Packet (nessclient/packet.py).  A str is a sequence of one-character    *)
(* strings.  The characters are those of the protocol: the decimal digits, *)
(* the letters, "*", "#", "?", CR and LF; int() is given no sign, blank or *)
(* underscore.  A function that can raise returns a record with the field  *)
(* ok, and with the field err naming the message when ok is FALSE.         *)
(***************************************************************************)
CR == "\r"
LF == "\n"
Upper == <<"A", "B", "C", "D", "E", "F", "G", "H", "I", "J", "K", "L", "M",
           "N", "O", "P", "Q", "R", "S", "T", "U", "V", "W", "X", "Y", "Z">>
Lower == <<"a", "b", "c", "d", "e", "f", "g", "h", "i", "j", "k", "l", "m",
           "n", "o", "p", "q", "r", "s", "t", "u", "v", "w", "x", "y", "z">>

\* the index of c in the table tbl, 0 when it is not there
IndexIn(tbl, c) ==
  IF \E i \in 1..Len(tbl) : tbl[i] = c
  THEN CHOOSE i \in 1..Len(tbl) : tbl[i] = c
  ELSE 0

\* ord(c)
Ord(c) ==
  IF IndexIn(Digits, c) > 0 THEN 47 + IndexIn(Digits, c)
  ELSE IF IndexIn(Upper, c) > 0 THEN 64 + IndexIn(Upper, c)
  ELSE IF IndexIn(Lower, c) > 0 THEN 96 + IndexIn(Lower, c)
  ELSE IF c = "#" THEN 35
  ELSE IF c = "*" THEN 42
  ELSE IF c = "?" THEN 63
  ELSE IF c = CR THEN 13
  ELSE 10

\* the value of a hexadecimal digit of either case, -1 for another character
HexCharVal(c) ==
  IF IndexIn(Digits, c) > 0 THEN IndexIn(Digits, c) - 1
  ELSE IF IndexIn(Upper, c) \in 1..6 THEN 9 + IndexIn(Upper, c)
  ELSE IF IndexIn(Lower, c) \in 1..6 THEN 9 + IndexIn(Lower, c)
  ELSE 0 - 1

\* Packet._is_hex
is_hex(str) == \A i \in 1..Len(str) : HexCharVal(str[i]) >= 0

\* Packet.VALID_UI_REQUEST_CHARACTERS
VALID_UI_REQUEST_CHARACTERS ==
  {"A", "H", "E", "X", "F", "V", "P", "D", "M", "*", "#", "S"}
  \cup {Digits[i] : i \in 1..10}

\* Packet._is_valid_ui_data_char
is_valid_ui_data_char(str) ==
  \A i \in 1..Len(str) : str[i] \in VALID_UI_REQUEST_CHARACTERS

\* int(str, 16) of a non-empty str: -1 when it raises ValueError
RECURSIVE IntHex(_)
IntHex(str) ==
  IF str = <<>> THEN 0 - 1
  ELSE IF ~is_hex(str) THEN 0 - 1
  ELSE IF Len(str) = 1 THEN HexCharVal(str[1])
  ELSE IntHex(SubSeq(str, 1, Len(str) - 1)) * 16 + HexCharVal(str[Len(str)])

\* int(str) of a two-character str: -1 when it raises ValueError
IntDec2(str) ==
  IF Len(str) = 2 /\ IndexIn(Digits, str[1]) > 0 /\ IndexIn(Digits, str[2]) > 0
  THEN DigitVal(str[1]) * 10 + DigitVal(str[2])
  ELSE 0 - 1

\* the hexadecimal digits of n >= 0, most significant first, no padding
RECURSIVE HexDigitsOf(_, _)
HexDigitsOf(n, upper) ==
  LET d == n % 16
      c == IF d < 10 THEN Digits[d + 1]
           ELSE IF upper THEN Upper[d - 9] ELSE Lower[d - 9]
  IN IF n < 16 THEN <<c>> ELSE Append(HexDigitsOf(n \div 16, upper), c)

\* f"{n:02x}" and f"{n:02X}"
Hex02(n, upper) ==
  IF n < 16 THEN <<"0">> \o HexDigitsOf(n, upper) ELSE HexDigitsOf(n, upper)

\* f"{n:01X}"
Hex01X(n) == HexDigitsOf(n, TRUE)

\* "%02d" of strftime, for 0 <= n <= 99
Dec02(n) == <<Digits[(n \div 10) + 1], Digits[(n % 10) + 1]>>

\* str.upper()
StrUpper(str) ==
  [i \in 1..Len(str) |-> IF IndexIn(Lower, str[i]) > 0
                         THEN Upper[IndexIn(Lower, str[i])] ELSE str[i]]

\* sum([ord(x) for x in str])
RECURSIVE SumOrd(_)
SumOrd(str) == IF str = <<>> THEN 0 ELSE Ord(Head(str)) + SumOrd(Tail(str))

\* str.endswith(suffix)
EndsWith(str, suffix) ==
  /\ Len(str) >= Len(suffix)
  /\ SubSeq(str, Len(str) - Len(suffix) + 1, Len(str)) = suffix

\* the slice str[a:b] of Python, 0 <= a
Slice(str, a, b) ==
  LET hi == IF b > Len(str) THEN Len(str) ELSE b
  IN IF a >= hi THEN <<>> ELSE SubSeq(str, a + 1, hi)

\* the hex pairs of str, as range(0, len(str), 2) cuts them: -1 when one of
\* them is not hexadecimal, their sum otherwise
RECURSIVE SumHexPairs(_)
SumHexPairs(str) ==
  IF str = <<>> THEN 0
  ELSE LET v == IntHex(Slice(str, 0, 2))
           rest == SumHexPairs(Slice(str, 2, Len(str)))
       IN IF v < 0 \/ rest < 0 THEN 0 - 1 ELSE v + rest

\* CommandType and its values
CommandType == {"SYSTEM_STATUS", "USER_INTERFACE"}
SYSTEM_STATUS_VALUE == 97
USER_INTERFACE_VALUE == 96
CommandValue(command) ==
  IF command = "SYSTEM_STATUS" THEN SYSTEM_STATUS_VALUE ELSE USER_INTERFACE_VALUE

USER_INTERFACE_RESPONSE_DATA_SIZE == 6
USER_INTERFACE_REQUEST_DATA_SIZE_MIN == 1
USER_INTERFACE_REQUEST_DATA_SIZE_MAX == 30
SYSTEM_STATUS_DATA_SIZE == 6
ADDRESS_MIN == 0
ADDRESS_MAX == 15
START_BYTE_ADDRESS_INCLUDED == 1
START_BYTE_BASIC_HEADER == 2
START_BYTE_TIMESTAMP_INCLUDED == 4
START_BYTE_ASCII_FORMAT == 128
USER_INTERFACE_REQUEST_FIXED_START_BYTE == 131
USER_INTERFACE_RESPONSE_FIXED_START_BYTE == 130
USER_INTERFACE_RESPONSE_ENCODED_LENGTH == 16
MINIMUM_PACKET_LENGTH == 9

\* address=None: an address is an integer, None is the integer -1
NoAddress == 0 - 1
\* timestamp=None: a datetime is a record of its fields, None is the record
\* of no date
NoTimestamp == [year |-> 0, month |-> 0, day |-> 0, hour |-> 0, minute |-> 0, second |-> 0]

\* a raised ValueError, named by its message
Raise(err) == [ok |-> FALSE, err |-> err]
\* a returned value
Return(val) == [ok |-> TRUE, val |-> val]
\* no call made yet
NotRun == [ok |-> FALSE, err |-> "not run"]

\* Packet.__init__: the error raised, "" when the arguments are accepted
PacketError(command, data, address, seq, timestamp, is_user_interface_resp, has_delay_marker) ==
  LET kind ==
        IF command = "USER_INTERFACE"
        THEN IF is_user_interface_resp
             THEN IF Len(data) # USER_INTERFACE_RESPONSE_DATA_SIZE
                    THEN "Data length of a User-Interface status update response must be 6"
                  ELSE IF ~is_hex(data)
                    THEN "Data of a User-Interface status update response must be hex"
                  ELSE IF address = NoAddress
                    THEN "User-Interface status update responses must have an address"
                  ELSE IF timestamp # NoTimestamp
                    THEN "User-Interface status update responses must not have a timestamp"
                  ELSE IF seq # 0
                    THEN "User-Interface status update responses do not use sequence"
                  ELSE IF has_delay_marker
                    THEN "User-Interface status update responses do not use delay markers"
                  ELSE ""
             ELSE IF \/ Len(data) < USER_INTERFACE_REQUEST_DATA_SIZE_MIN
                     \/ Len(data) > USER_INTERFACE_REQUEST_DATA_SIZE_MAX
                    THEN "Data length of a User-Interface Packet must be in the range"
                  ELSE IF ~is_valid_ui_data_char(data)
                    THEN "Data characters of a User-Interface Packet must be one of"
                  ELSE IF address = NoAddress
                    THEN "User-Interface Packet must have an address"
                  ELSE IF timestamp # NoTimestamp
                    THEN "User-Interface Packet must not have a timestamp"
                  ELSE IF seq # 0
                    THEN "User-Interface Packet do not use sequence"
                  ELSE ""
        ELSE IF command = "SYSTEM_STATUS"
        THEN IF Len(data) # SYSTEM_STATUS_DATA_SIZE
               THEN "Data length of a System Status Event Data Packet must be 6"
             ELSE IF ~is_hex(data)
               THEN "Data of a System Status Event Data Packet must be hex"
             ELSE IF has_delay_marker
               THEN "System Status Event Data Packet must not use delay markers"
             ELSE ""
        ELSE "Unknown command"
  IN IF kind # "" THEN kind
     ELSE IF address # NoAddress /\ (address < ADDRESS_MIN \/ address > ADDRESS_MAX)
       THEN "Address must be in the range"
     ELSE ""

\* Packet.__init__ leaving every field as it was given
PacketFields(command, data, address, seq, timestamp, is_user_interface_resp, has_delay_marker) ==
  [command |-> command, data |-> data, address |-> address, seq |-> seq,
   timestamp |-> timestamp, is_user_interface_resp |-> is_user_interface_resp,
   has_delay_marker |-> has_delay_marker]

\* Packet.__init__ without the validation of the UI response fields
Packet_unvalidated_response(command, data, address, seq, timestamp, is_user_interface_resp, has_delay_marker) ==
  LET err == IF command = "USER_INTERFACE" /\ is_user_interface_resp
             THEN IF address # NoAddress /\ (address < ADDRESS_MIN \/ address > ADDRESS_MAX)
                  THEN "Address must be in the range" ELSE ""
             ELSE PacketError(command, data, address, seq, timestamp,
                              is_user_interface_resp, has_delay_marker)
  IN IF err # "" THEN Raise(err)
     ELSE Return(PacketFields(command, data, address, seq, timestamp,
                              is_user_interface_resp, has_delay_marker))

\* Packet(...)
Packet(command, data, address, seq, timestamp, is_user_interface_resp, has_delay_marker) ==
  LET err == PacketError(command, data, address, seq, timestamp,
                         is_user_interface_resp, has_delay_marker)
  IN IF err # "" THEN Raise(err)
     ELSE Return(PacketFields(command, data, address, seq, timestamp,
                              is_user_interface_resp, has_delay_marker))

\* _is_user_interface_req
is_user_interface_req(start, command) ==
  start = USER_INTERFACE_REQUEST_FIXED_START_BYTE /\ command = "USER_INTERFACE"

\* Packet.start
PacketStart(p) ==
  START_BYTE_BASIC_HEADER + START_BYTE_ASCII_FORMAT
  + (IF p.address # NoAddress /\ ~p.is_user_interface_resp
     THEN START_BYTE_ADDRESS_INCLUDED ELSE 0)
  + (IF p.timestamp # NoTimestamp THEN START_BYTE_TIMESTAMP_INCLUDED ELSE 0)

\* Packet.length
PacketLength(p) ==
  IF is_user_interface_req(PacketStart(p), p.command)
  THEN Len(p.data) ELSE Len(p.data) \div 2

\* Packet.length_field: length | (seq << 7), for a length below 128 and a
\* seq that is not negative
PacketLengthField(p) == PacketLength(p) + p.seq * 128

\* datetime.strftime("%y%m%d%H%M%S")
strftime(ts) ==
  Dec02(ts.year % 100) \o Dec02(ts.month) \o Dec02(ts.day)
  \o Dec02(ts.hour) \o Dec02(ts.minute) \o Dec02(ts.second)

\* Packet.encode(with_checksum=False) without the final CRLF
EncodeBody(p) ==
  LET req == is_user_interface_req(PacketStart(p), p.command)
  IN Hex02(PacketStart(p), FALSE)
     \o (IF p.address # NoAddress
         THEN IF req THEN Hex01X(p.address) ELSE Hex02(p.address, FALSE)
         ELSE <<>>)
     \o Hex02(PacketLengthField(p), req) \o Hex02(CommandValue(p.command), req)
     \o p.data
     \o (IF p.timestamp # NoTimestamp THEN strftime(p.timestamp) ELSE <<>>)

\* Packet.checksum
PacketChecksum(p) ==
  LET data_bytes == EncodeBody(p)
      total == IF is_user_interface_req(PacketStart(p), p.command)
               THEN SumOrd(data_bytes) ELSE SumHexPairs(data_bytes)
  IN (256 - total) % 256

\* Packet.encode()
Packet_encode(p) ==
  LET checksum_str == Hex02(PacketChecksum(p), FALSE)
  IN EncodeBody(p)
     \o (IF is_user_interface_req(PacketStart(p), p.command)
         THEN StrUpper(checksum_str) ELSE checksum_str)
     \o (IF p.has_delay_marker THEN <<"?">> ELSE <<>>)
     \o <<CR, LF>>

\* _has_address
has_address(start, data_length) ==
  \/ start % 2 = 1
  \/ /\ start = USER_INTERFACE_RESPONSE_FIXED_START_BYTE
     /\ data_length = USER_INTERFACE_RESPONSE_ENCODED_LENGTH

\* the number of days of a month, for datetime's validation
DaysInMonth(year, month) ==
  IF month \in {4, 6, 9, 11} THEN 30
  ELSE IF month = 2
       THEN IF year % 4 = 0 /\ (year % 100 # 0 \/ year % 400 = 0) THEN 29 ELSE 28
  ELSE 31

\* _decode_timestamp
decode_timestamp(data) ==
  LET year == 2000 + IntDec2(Slice(data, 0, 2))
      month == IntDec2(Slice(data, 2, 4))
      day == IntDec2(Slice(data, 4, 6))
      hour0 == IntDec2(Slice(data, 6, 8))
      minute0 == IntDec2(Slice(data, 8, 10))
      second == IntDec2(Slice(data, 10, 12))
      hour == IF minute0 = 60 THEN hour0 + 1 ELSE hour0
      minute == IF minute0 = 60 THEN 0 ELSE minute0
  IN IF \E i \in 0..5 : IntDec2(Slice(data, 2 * i, 2 * i + 2)) < 0
     THEN Raise("invalid literal for int()")
     ELSE IF month \notin 1..12 THEN Raise("month must be in 1..12")
     ELSE IF day \notin 1..DaysInMonth(year, month)
       THEN Raise("day is out of range for month")
     ELSE IF hour \notin 0..23 THEN Raise("hour must be in 0..23")
     ELSE IF minute \notin 0..59 THEN Raise("minute must be in 0..59")
     ELSE IF second \notin 0..59 THEN Raise("second must be in 0..59")
     ELSE Return([year |-> year, month |-> month, day |-> day,
                  hour |-> hour, minute |-> minute, second |-> second])

\* Packet.decode: the checksum verification of a frame stripped of CRLF.
\* The result is the error raised, "" when the checksum verifies.
ChecksumError(body, is_input_ui_req) ==
  IF is_input_ui_req
  THEN LET datasum == SumOrd(SubSeq(body, 1, Len(body) - 2))
           checksum == IntHex(SubSeq(body, Len(body) - 1, Len(body)))
       IN IF checksum < 0 THEN "Invalid non-hex character in checksum byte"
          ELSE IF ~EndsWith(body, Hex02(checksum, TRUE))
            THEN "Packet checksum for input request must be upper case"
          ELSE IF (256 - (datasum % 256)) % 256 # checksum
            THEN "Packet checksum does not match"
          ELSE ""
  ELSE LET datasum == SumHexPairs(body)
       IN IF datasum < 0 THEN "Invalid non-hex character in data"
          ELSE IF datasum % 256 # 0 THEN "Packet checksum does not match"
          ELSE ""

\* Packet.decode: the fields taken by the DataIterator from a frame whose
\* checksum verified, and the Packet made of them
DecodeFields(body, is_input_ui_req, has_delay_marker) ==
  LET n == Len(body)
      start == IntHex(Slice(body, 0, 2))
      addr_w == IF has_address(start, n) THEN (IF is_input_ui_req THEN 1 ELSE 2) ELSE 0
      p1 == 2
      p2 == p1 + addr_w
      address == IF addr_w = 0 THEN NoAddress ELSE IntHex(Slice(body, p1, p2))
      p3 == p2 + 2
      length == IntHex(Slice(body, p2, p3))
      data_length == length % 128
      seq == length \div 128
      p4 == p3 + 2
      command_value == IntHex(Slice(body, p3, p4))
      p5 == p4 + data_length * (IF is_input_ui_req THEN 1 ELSE 2)
      msg_data == Slice(body, p4, p5)
      has_ts == (start \div START_BYTE_TIMESTAMP_INCLUDED) % 2 = 1
      p6 == IF has_ts THEN p5 + 12 ELSE p5
      ts == IF has_ts /\ p6 <= n THEN decode_timestamp(Slice(body, p5, p6))
            ELSE Return(NoTimestamp)
      p7 == p6 + 2
      command == IF command_value = SYSTEM_STATUS_VALUE THEN "SYSTEM_STATUS"
                 ELSE "USER_INTERFACE"
  IN IF start < 0 THEN Raise("invalid literal for int()")
     ELSE IF p2 > n THEN Raise("Unable to take more data than exists")
     ELSE IF addr_w > 0 /\ address < 0 THEN Raise("invalid literal for int()")
     ELSE IF p3 > n THEN Raise("Unable to take more data than exists")
     ELSE IF length < 0 THEN Raise("invalid literal for int()")
     ELSE IF p4 > n THEN Raise("Unable to take more data than exists")
     ELSE IF command_value < 0 THEN Raise("invalid literal for int()")
     ELSE IF command_value \notin {SYSTEM_STATUS_VALUE, USER_INTERFACE_VALUE}
       THEN Raise("is not a valid CommandType")
     ELSE IF p5 > n THEN Raise("Unable to take more data than exists")
     ELSE IF p6 > n THEN Raise("Unable to take more data than exists")
     ELSE IF ~ts.ok THEN ts
     ELSE IF p7 > n THEN Raise("Unable to take more data than exists")
     ELSE IF IntHex(Slice(body, p6, p7)) < 0 THEN Raise("invalid literal for int()")
     ELSE IF p7 < n THEN Raise("Unable to consume all data")
     ELSE Packet(command, msg_data, address, seq, ts.val,
                 start = USER_INTERFACE_RESPONSE_FIXED_START_BYTE
                   /\ command = "USER_INTERFACE",
                 has_delay_marker)

\* Packet.decode accepting a frame without verifying its checksum
Packet_decode_unchecked(str) ==
  IF Len(str) < MINIMUM_PACKET_LENGTH THEN Raise("Packet data too short")
  ELSE IF ~EndsWith(str, <<CR, LF>>) THEN Raise("did not end with CRLF newline")
  ELSE LET data0 == SubSeq(str, 1, Len(str) - 2)
           is_input_ui_req == Slice(data0, 5, 7) = <<"6", "0">>
           marked == is_input_ui_req /\ EndsWith(data0, <<"?">>)
           body == IF marked THEN SubSeq(data0, 1, Len(data0) - 1) ELSE data0
       IN DecodeFields(body, is_input_ui_req, marked)

\* Packet.decode(str)
Packet_decode(str) ==
  IF Len(str) < MINIMUM_PACKET_LENGTH THEN Raise("Packet data too short")
  ELSE IF ~EndsWith(str, <<CR, LF>>) THEN Raise("did not end with CRLF newline")
  ELSE LET data0 == SubSeq(str, 1, Len(str) - 2)
           is_input_ui_req == Slice(data0, 5, 7) = <<"6", "0">>
           marked == is_input_ui_req /\ EndsWith(data0, <<"?">>)
           body == IF marked THEN SubSeq(data0, 1, Len(data0) - 1) ELSE data0
           err == ChecksumError(body, is_input_ui_req)
       IN IF err # "" THEN Raise(err)
          ELSE DecodeFields(body, is_input_ui_req, marked)


(***************************************************************************)
(* Events (nessclient/event.py).  An Enum is a record from the names of    *)
(* its members to their values.                                            *)
(***************************************************************************)
\* a & b
RECURSIVE BitAnd(_, _)
BitAnd(a, b) ==
  IF a = 0 \/ b = 0 THEN 0
  ELSE (a % 2) * (b % 2) + 2 * BitAnd(a \div 2, b \div 2)

\* a | b
RECURSIVE BitOr(_, _)
BitOr(a, b) ==
  IF a = 0 THEN b
  ELSE IF b = 0 THEN a
  ELSE (IF a % 2 = 1 \/ b % 2 = 1 THEN 1 ELSE 0) + 2 * BitOr(a \div 2, b \div 2)

\* SystemStatusEvent.EventType
EventTypeValue ==
  [UNSEALED |-> 0, SEALED |-> 1, ALARM |-> 2, ALARM_RESTORE |-> 3,
   MANUAL_EXCLUDE |-> 4, MANUAL_INCLUDE |-> 5, AUTO_EXCLUDE |-> 6, AUTO_INCLUDE |-> 7,
   TAMPER_UNSEALED |-> 8, TAMPER_NORMAL |-> 9,
   POWER_FAILURE |-> 16, POWER_NORMAL |-> 17, BATTERY_FAILURE |-> 18,
   BATTERY_NORMAL |-> 19, REPORT_FAILURE |-> 20, REPORT_NORMAL |-> 21,
   SUPERVISION_FAILURE |-> 22, SUPERVISION_NORMAL |-> 23, REAL_TIME_CLOCK |-> 25,
   ENTRY_DELAY_START |-> 32, ENTRY_DELAY_END |-> 33, EXIT_DELAY_START |-> 34,
   EXIT_DELAY_END |-> 35, ARMED_AWAY |-> 36, ARMED_HOME |-> 37, ARMED_DAY |-> 38,
   ARMED_NIGHT |-> 39, ARMED_VACATION |-> 40, ARMED_HIGHEST |-> 46, DISARMED |-> 47,
   ARMING_DELAYED |-> 48, OUTPUT_ON |-> 49, OUTPUT_OFF |-> 50]

\* SystemStatusEvent.ZONE_ID_VIOLATING_DECIMAL_ID
ZONE_ID_VIOLATING_DECIMAL_ID == 240

\* StatusUpdate.RequestID values
ZONE_DETECTOR_TAMPER == 12
MISCELLANEOUS_ALARMS == 13
OUTPUTS == 15
VIEW_STATE == 16
PANEL_VERSION == 17
AUXILIARY_OUTPUTS == 18

\* ZoneUpdate.Zone
Zone ==
  [ZONE_1 |-> 256, ZONE_2 |-> 512, ZONE_3 |-> 1024, ZONE_4 |-> 2048,
   ZONE_5 |-> 4096, ZONE_6 |-> 8192, ZONE_7 |-> 16384, ZONE_8 |-> 32768,
   ZONE_9 |-> 1, ZONE_10 |-> 2, ZONE_11 |-> 4, ZONE_12 |-> 8,
   ZONE_13 |-> 16, ZONE_14 |-> 32, ZONE_15 |-> 64, ZONE_16 |-> 128]

\* MiscellaneousAlarmsUpdate.AlarmType
AlarmType ==
  [DURESS |-> 256, PANIC |-> 512, MEDICAL |-> 1024, FIRE |-> 2048,
   INSTALL_END |-> 4096, EXT_TAMPER |-> 8192, PANEL_TAMPER |-> 16384,
   KEYPAD_TAMPER |-> 32768, PENDANT_PANIC |-> 1, PANEL_BATTERY_LOW |-> 2,
   PANEL_BATTERY_LOW2 |-> 4, MAINS_FAIL |-> 8, CBUS_FAIL |-> 16]

\* ArmingUpdate.ArmingStatus, with the values of its members
ArmingStatusValue ==
  [AREA_1_ARMED |-> 256, AREA_2_ARMED |-> 512, AREA_1_FULLY_ARMED |-> 1024,
   AREA_2_FULLY_ARMED |-> 2048, MONITOR_ARMED |-> 4096, DAY_MODE_ARMED |-> 8192,
   ENTRY_DELAY_1_ON |-> 16384, ENTRY_DELAY_2_ON |-> 32768,
   MANUAL_EXCLUDE_MODE |-> 1, MEMORY_MODE |-> 2, DAY_ZONE_SELECT |-> 4]

\* OutputsUpdate.OutputType
OutputType ==
  [SIREN_LOUD |-> 256, SIREN_SOFT |-> 512, SIREN_SOFT_MONITOR |-> 1024,
   SIREN_SOFT_FIRE |-> 2048, STROBE |-> 4096, RESET |-> 8192, SONALART |-> 16384,
   KEYPAD_DISPLAY_ENABLE |-> 32768, AUX1 |-> 1, AUX2 |-> 2, AUX3 |-> 4, AUX4 |-> 8,
   MONITOR_OUT |-> 16, POWER_FAIL |-> 32, PANEL_BATT_FAIL |-> 64, TAMPER_XPAND |-> 128]

\* AuxiliaryOutputsUpdate.OutputType
AuxiliaryOutputType ==
  [AUX_1 |-> 1, AUX_2 |-> 2, AUX_3 |-> 4, AUX_4 |-> 8,
   AUX_5 |-> 16, AUX_6 |-> 32, AUX_7 |-> 64, AUX_8 |-> 128]

\* ViewStateUpdate.State
ViewState ==
  [NORMAL |-> 61440, BRIEF_DAY_CHIME |-> 57344, HOME |-> 53248, MEMORY |-> 49152,
   BRIEF_DAY_ZONE_SELECT |-> 45056, EXCLUDE_SELECT |-> 40960, USER_PROGRAM |-> 36864,
   INSTALLER_PROGRAM |-> 32768]

\* PanelVersionUpdate.Model
Model == [D16X |-> 0, D16X_3G |-> 4]

\* the flag enums of the status updates, by the name of their class
FlagEnumNames ==
  {"ZoneUpdate.Zone", "MiscellaneousAlarmsUpdate.AlarmType", "ArmingUpdate.ArmingStatus",
   "OutputsUpdate.OutputType", "AuxiliaryOutputsUpdate.OutputType"}
FlagEnum(name) ==
  CASE name = "ZoneUpdate.Zone" -> Zone
    [] name = "MiscellaneousAlarmsUpdate.AlarmType" -> AlarmType
    [] name = "ArmingUpdate.ArmingStatus" -> ArmingStatusValue
    [] name = "OutputsUpdate.OutputType" -> OutputType
    [] name = "AuxiliaryOutputsUpdate.OutputType" -> AuxiliaryOutputType

\* Enum(value): whether a member has the value, and its name
HasValue(enum, v) == \E e \in DOMAIN enum : enum[e] = v
NameOf(enum, v) == CHOOSE e \in DOMAIN enum : enum[e] = v

\* int(str) in base 10 of a str of Packet data characters: -1 when it
\* raises ValueError
RECURSIVE IntDec(_)
IntDec(str) ==
  IF str = <<>> THEN 0 - 1
  ELSE IF \E i \in 1..Len(str) : ~IsDigit(str[i]) THEN 0 - 1
  ELSE IF Len(str) = 1 THEN DigitVal(str[1])
  ELSE IntDec(SubSeq(str, 1, Len(str) - 1)) * 10 + DigitVal(str[Len(str)])

\* bytearray.fromhex(str) of a str of Packet data characters, none of which
\* is a blank: it raises ValueError unless str is pairs of hex digits
fromhex_raises(str) == Len(str) % 2 # 0 \/ ~is_hex(str)
RECURSIVE fromhex(_)
fromhex(str) ==
  IF str = <<>> THEN <<>>
  ELSE <<IntHex(Slice(str, 0, 2))>> \o fromhex(Slice(str, 2, Len(str)))

\* f"{n:04x}", and bytes.hex() of struct.pack(">H", n)
Hex04(n) == Hex02(n \div 256, FALSE) \o Hex02(n % 256, FALSE)

\* unpack_unsigned_short_data_enum reading the two bytes in little-endian order
unpack_unsigned_short_little_endian(packet, enum_bitfield_type) ==
  IF fromhex_raises(packet.data) THEN Raise("ValueError")
  ELSE LET data == fromhex(packet.data)
           field == Slice(data, 1, 3)
       IN IF Len(field) # 2 THEN Raise("struct.error")
          ELSE LET raw_data == field[2] * 256 + field[1]
               IN Return({e \in DOMAIN enum_bitfield_type :
                            BitAnd(enum_bitfield_type[e], raw_data) # 0})

\* unpack_unsigned_short_data_enum: the members found, as a set (the list
\* has each member once, in the order of the Enum)
unpack_unsigned_short_data_enum(packet, enum_bitfield_type) ==
  IF fromhex_raises(packet.data) THEN Raise("ValueError")
  ELSE LET data == fromhex(packet.data)
           field == Slice(data, 1, 3)
       IN IF Len(field) # 2 THEN Raise("struct.error")
          ELSE LET raw_data == field[1] * 256 + field[2]
               IN Return({e \in DOMAIN enum_bitfield_type :
                            BitAnd(enum_bitfield_type[e], raw_data) # 0})

\* value |= item.value, for each item
RECURSIVE OrValues(_, _)
OrValues(enum, items) ==
  IF items = {} THEN 0
  ELSE LET e == CHOOSE x \in items : TRUE
       IN BitOr(enum[e], OrValues(enum, items \ {e}))

\* pack_unsigned_short_data_enum of members of the Enum `enum`;
\* struct.pack(">H", value) raises struct.error above 0xFFFF
pack_unsigned_short_data_enum(enum, enum_bitfield_items) ==
  LET value == OrValues(enum, enum_bitfield_items)
  IN IF value > 65535 THEN Raise("struct.error") ELSE Return(Hex04(value))

\* the fields of an event object; a class leaves at their default the
\* fields it does not have
EventFields(cls, address, timestamp) ==
  [cls |-> cls, address |-> address, timestamp |-> timestamp,
   type |-> None, zone |-> 0, area |-> 0, sequence |-> FALSE,
   request_id |-> 0 - 1, items |-> {}, state |-> None, model |-> None,
   major_version |-> 0, minor_version |-> 0]

\* the event types whose zone field may be the hexadecimal F0
ViolatingTypes == {"ALARM", "ALARM_RESTORE", "TAMPER_UNSEALED", "TAMPER_NORMAL"}

\* SystemStatusEvent.decode
SystemStatusEvent_decode(packet) ==
  LET event_type == IntHex(Slice(packet.data, 0, 2))
      zone_field == Slice(packet.data, 2, 4)
      is_f0 == StrUpper(zone_field) = <<"F", "0">>
      area == IntHex(Slice(packet.data, 4, 6))
  IN IF event_type < 0 THEN Raise("ValueError")
     ELSE IF ~HasValue(EventTypeValue, event_type) THEN Raise("ValueError")
     ELSE LET type == NameOf(EventTypeValue, event_type)
              zone == IF is_f0 /\ type \in ViolatingTypes
                      THEN IntHex(zone_field) ELSE IntDec(zone_field)
          IN IF zone < 0 \/ area < 0 THEN Raise("ValueError")
             ELSE Return([EventFields("SystemStatusEvent", packet.address, packet.timestamp)
                            EXCEPT !.type = type, !.zone = zone, !.area = area,
                                   !.sequence = (packet.seq = 1)])

\* SystemStatusEvent.encode; a zone other than 0xF0 is written with two
\* decimal digits
SystemStatusEvent_encode(e) ==
  LET data == IF e.zone = ZONE_ID_VIOLATING_DECIMAL_ID /\ e.type \in ViolatingTypes
              THEN Hex02(EventTypeValue[e.type], FALSE) \o Hex02(e.zone, FALSE)
                   \o Hex02(e.area, FALSE)
              ELSE Hex02(EventTypeValue[e.type], FALSE) \o Dec02(e.zone)
                   \o Hex02(e.area, FALSE)
  IN Packet("SYSTEM_STATUS", data, e.address, IF e.sequence THEN 1 ELSE 0,
            e.timestamp, FALSE, FALSE)

\* the decode of the classes that hold one bitfield
BitfieldUpdate_decode(cls, request_id, enum, packet) ==
  LET items == unpack_unsigned_short_data_enum(packet, enum)
  IN IF ~items.ok THEN items
     ELSE Return([EventFields(cls, packet.address, packet.timestamp)
                    EXCEPT !.request_id = request_id, !.items = items.val])

\* ZoneUpdate.decode
ZoneUpdate_decode(packet) ==
  LET request_id == IntDec(Slice(packet.data, 0, 2))
  IN IF request_id \notin RequestID THEN Raise("ValueError")
     ELSE BitfieldUpdate_decode("ZoneUpdate", request_id, Zone, packet)

\* MiscellaneousAlarmsUpdate.decode
MiscellaneousAlarmsUpdate_decode(packet) ==
  BitfieldUpdate_decode("MiscellaneousAlarmsUpdate", MISCELLANEOUS_ALARMS, AlarmType, packet)

\* ArmingUpdate.decode
ArmingUpdate_decode(packet) ==
  BitfieldUpdate_decode("ArmingUpdate", ARMING, ArmingStatusValue, packet)

\* OutputsUpdate.decode
OutputsUpdate_decode(packet) ==
  BitfieldUpdate_decode("OutputsUpdate", OUTPUTS, OutputType, packet)

\* AuxiliaryOutputsUpdate.decode
AuxiliaryOutputsUpdate_decode(packet) ==
  BitfieldUpdate_decode("AuxiliaryOutputsUpdate", AUXILIARY_OUTPUTS, AuxiliaryOutputType,
                        packet)

\* ViewStateUpdate.decode
ViewStateUpdate_decode(packet) ==
  LET state == IntHex(Slice(packet.data, 2, 6))
  IN IF state < 0 \/ ~HasValue(ViewState, state) THEN Raise("ValueError")
     ELSE Return([EventFields("ViewStateUpdate", packet.address, packet.timestamp)
                    EXCEPT !.request_id = VIEW_STATE, !.state = NameOf(ViewState, state)])

\* PanelVersionUpdate.decode
PanelVersionUpdate_decode(packet) ==
  LET model == IntHex(Slice(packet.data, 2, 4))
      major_version == IntHex(Slice(packet.data, 4, 5))
      minor_version == IntHex(Slice(packet.data, 5, 6))
  IN IF model < 0 \/ ~HasValue(Model, model) THEN Raise("ValueError")
     ELSE IF major_version < 0 \/ minor_version < 0 THEN Raise("ValueError")
     ELSE Return([EventFields("PanelVersionUpdate", packet.address, packet.timestamp)
                    EXCEPT !.request_id = PANEL_VERSION, !.model = NameOf(Model, model),
                           !.major_version = major_version,
                           !.minor_version = minor_version])

\* StatusUpdate.decode
StatusUpdate_decode(packet) ==
  LET request_id == IntDec(Slice(packet.data, 0, 2))
  IN IF request_id \notin RequestID THEN Raise("ValueError")
     ELSE IF request_id <= ZONE_DETECTOR_TAMPER THEN ZoneUpdate_decode(packet)
     ELSE IF request_id = MISCELLANEOUS_ALARMS THEN MiscellaneousAlarmsUpdate_decode(packet)
     ELSE IF request_id = ARMING THEN ArmingUpdate_decode(packet)
     ELSE IF request_id = OUTPUTS THEN OutputsUpdate_decode(packet)
     ELSE IF request_id = VIEW_STATE THEN ViewStateUpdate_decode(packet)
     ELSE IF request_id = PANEL_VERSION THEN PanelVersionUpdate_decode(packet)
     ELSE AuxiliaryOutputsUpdate_decode(packet)

\* BaseEvent.decode
BaseEvent_decode(packet) ==
  IF packet.command = "SYSTEM_STATUS" THEN SystemStatusEvent_decode(packet)
  ELSE StatusUpdate_decode(packet)

\* the Packet each encode() of a StatusUpdate subclass builds from its data
ResponsePacket(e, data) ==
  Packet("USER_INTERFACE", data, e.address, 0, NoTimestamp, TRUE, FALSE)

\* the encode() of the classes that hold one bitfield
BitfieldUpdate_encode(e, enum) ==
  LET packed == pack_unsigned_short_data_enum(enum, e.items)
  IN IF ~packed.ok THEN packed
     ELSE ResponsePacket(e, Dec02(e.request_id) \o packed.val)

\* encode() of the class of the event e
Event_encode(e) ==
  CASE e.cls = "SystemStatusEvent" -> SystemStatusEvent_encode(e)
    [] e.cls = "ZoneUpdate" -> BitfieldUpdate_encode(e, Zone)
    [] e.cls = "MiscellaneousAlarmsUpdate" -> BitfieldUpdate_encode(e, AlarmType)
    [] e.cls = "ArmingUpdate" -> BitfieldUpdate_encode(e, ArmingStatusValue)
    [] e.cls = "OutputsUpdate" -> BitfieldUpdate_encode(e, OutputType)
    [] e.cls = "AuxiliaryOutputsUpdate" -> BitfieldUpdate_encode(e, AuxiliaryOutputType)
    [] e.cls = "ViewStateUpdate" ->
         ResponsePacket(e, Dec02(e.request_id) \o Hex04(ViewState[e.state]))
    [] e.cls = "PanelVersionUpdate" ->
         ResponsePacket(e, Dec02(e.request_id) \o Hex02(Model[e.model], FALSE)
                           \o HexDigitsOf(e.major_version, FALSE)
                           \o HexDigitsOf(e.minor_version, FALSE))

(***************************************************************************)
(* Frames read from the transport.  A frame is modelled by the outcome of  *)
(* the three decoding steps of _recv_loop: bytes.decode("ascii"),          *)
(* Packet.decode and BaseEvent.decode.                                     *)
(***************************************************************************)
Frame(fault, event) == [fault |-> fault, event |-> event]
\* fault: "ascii"  the bytes are not ASCII (UnicodeDecodeError)
\*        "empty"  the decoded string is empty
\*        "packet" Packet.decode raises
\*        "event"  BaseEvent.decode raises
\*        "ok"     the frame decodes to `event`
FrameFaults == {"ascii", "packet", "event"}

(***************************************************************************)
(* Transport (nessclient/connection.py, not part of the sources; modelled  *)
(* from the transport abstraction of the specification):                   *)
(*   link = "down"  not connected                                          *)
(*   link = "up"    connected                                              *)
(*   link = "eof"   the peer has closed; the next read() returns None      *)
(***************************************************************************)
connected(s) == s.link # "down"

\* Connection.close()
connection_close(s) ==
  [s EXCEPT !.link = "down",
            !.transport_closes = @ + 1,
            !.transport_downs = IF s.link # "down" THEN @ + 1 ELSE @]

\* Connection.connect() returning normally
connection_connect(s) ==
  [s EXCEPT !.link = "up", !.transport_connects = @ + 1]

\* Connection.write(data) fails when the transport is not connected
connection_write_fails(s) == ~connected(s)

\* Connection.read() has nothing but None to return
connection_at_eof(s) == s.link \in {"down", "eof"}

\* Connection.read() returning None: the transport is closed
connection_read_none(s) ==
  [s EXCEPT !.link = "down",
            !.transport_downs = IF s.link # "down" THEN @ + 1 ELSE @]


(***************************************************************************)
(* The Client object as a record `s`.  Fields of Client:                  *)
(*   closed, connect_lock, write_lock, last_recv, last_sent_time,          *)
(*   connected_count, disconnection_count, bad_received_packets,           *)
(*   requests_awaiting_response, on_event_received, alarm                  *)
(* The transport: link.  The clock: now.                                   *)
(* The coroutines: pc (where each is suspended), command (the argument of  *)
(* a send_command in progress), req, retries, attempt (the arguments and   *)
(* locals of request_and_wait_status_update), fut (the state of the k-th   *)
(* future a requester created), result (what the call returned).           *)
(* History: frames_log, cb_log, handled_log, writes, transport_closes,     *)
(* transport_connects, transport_downs, conn_call, last_frame, preempted,  *)
(* resumed, timeouts, updates, call (the command method a sender called,   *)
(* with its arguments), address (the address argument of a direct call of  *)
(* send_command; 0, the default, for every other caller).                  *)
(***************************************************************************)

\* an asyncio.Lock is a FIFO queue of coroutines whose head holds the lock
Release(lock, t) == SelectSeq(lock, LAMBDA x : x # t)

\* _should_reconnect with the limit one second too long
should_reconnect_late(s) ==
  /\ s.last_recv # NoTime
  /\ s.last_recv < s.now - (update_interval + STALE_SLACK_SECONDS + 1)

\* _should_reconnect
should_reconnect(s) ==
  /\ s.last_recv # NoTime
  /\ s.last_recv < s.now - (update_interval + STALE_SLACK_SECONDS)

RECURSIVE request_loop(_, _)

\* request_and_wait_status_update: the except clause, then `retries -= 1`
request_retry(s, c) ==
  request_loop([s EXCEPT !.retries[c] = @ - 1, !.timeouts[c] = @ + 1], c)

\* request_and_wait_status_update: await asyncio.wait_for(f, 2.0)
wait_for(s, c) ==
  LET f == s.fut[c][s.attempt[c]]
  IN IF f = "done"
     THEN [s EXCEPT !.pc[c] = "done", !.result[c] = s.fut_result[c]]
     ELSE IF f = "cancelled" THEN request_retry(s, c)
     ELSE [s EXCEPT !.pc[c] = "waiting"]

\* send_command returned to its caller
send_return(s, t) ==
  IF t \in Requesters THEN wait_for(s, t) ELSE [s EXCEPT !.pc[t] = "done"]

\* send_command raised to its caller, which does not catch it
send_raise(s, t) == [s EXCEPT !.pc[t] = "raised"]

\* send_command: the Packet built from the command, with address & 0xF for
\* its address.  For a Python int, negative ones included, x & 0xF is x
\* modulo 16.
CommandPacket(command, address) ==
  Packet("USER_INTERFACE", command, address % 16, 0, NoTimestamp, FALSE, TRUE)

\* send_command: payload = packet.encode(), the bytes given to write() for
\* the entry w of the log of writes
payload(w) == Packet_encode(CommandPacket(w.data, w.address).val)

\* send_command: self._last_sent_time = now; await self._connection.write(...)
\* and the end of `async with self._write_lock`.  write() on a transport
\* that is not connected fails.
send_write(s, t) ==
  LET s1 == [s EXCEPT !.last_sent_time = s.now, !.write_lock = Release(@, t)]
  IN IF connection_write_fails(s)
     THEN send_raise(s1, t)
     ELSE send_return([s1 EXCEPT !.writes = Append(@, [by |-> t, data |-> s.command[t], address |-> s.address[t] % 16])], t)

\* send_command: the pacing check
send_paced(s, t) ==
  IF /\ s.last_sent_time # NoTime
     /\ (s.now - s.last_sent_time) * 10 < DELAY_TENTHS_BETWEEN_SENDS
  THEN [s EXCEPT !.pc[t] = "pacing"]
  ELSE send_write(s, t)

\* what follows `await self._connect()` in the caller
after_connect(s, t) ==
  IF t = "recv" THEN [s EXCEPT !.pc[t] = "reading"] ELSE send_paced(s, t)

\* _connect: self._backoff.reset() and the end of `async with self._connect_lock`
connect_exit(s, t) == after_connect([s EXCEPT !.connect_lock = Release(@, t)], t)

\* _connect: `while not self._connection.connected`, up to the await of connect()
connect_loop(s, t) ==
  IF ~connected(s)
  THEN [s EXCEPT !.pc[t] = "connecting", !.conn_call[t].attempted = TRUE]
  ELSE connect_exit(s, t)

\* _connect: the body under the connect lock, up to the first suspension
connect_locked(s, t) ==
  LET call == [silent   |-> /\ connected(s)
                            /\ s.last_frame # NoTime
                            /\ s.now - s.last_frame > update_interval + STALE_SLACK_SECONDS,
               idle     |-> s.last_activity # NoTime
                            /\ s.now - s.last_activity > update_interval + STALE_SLACK_SECONDS,
               closes   |-> 0,
               attempted |-> FALSE]
      s1 == [s EXCEPT !.conn_call[t] = call]
  IN IF should_reconnect(s1)
     THEN connect_loop([connection_close(s1) EXCEPT !.conn_call[t].closes = @ + 1], t)
     ELSE connect_loop(s1, t)

\* _connect without the connect lock
connect_unlocked(s, t) == connect_locked([s EXCEPT !.connect_lock = <<t>> \o @], t)

\* _connect: `async with self._connect_lock`
connect(s, t) ==
  IF s.connect_lock = <<>>
  THEN connect_locked([s EXCEPT !.connect_lock = <<t>>], t)
  ELSE [s EXCEPT !.connect_lock = Append(@, t), !.pc[t] = "connect_lock"]

\* send_command: the registration of finished_future for req_id
register(s, req_id, finished_future) ==
  LET current == s.requests_awaiting_response[req_id]
      s1 == IF current # NoFuture /\ s.fut[current[1]][current[2]] = "pending"
            THEN [s EXCEPT !.fut[current[1]][current[2]] = "cancelled",
                           !.preempted[current[1]] =
                               IF /\ current[1] # finished_future[1]
                                  /\ ~s.preempted[finished_future[1]]
                               THEN TRUE ELSE @]
            ELSE s
  IN [s1 EXCEPT !.requests_awaiting_response[req_id] = finished_future]

\* send_command registering every status request, without the test
\* `finished_future is not None`
send_command_registers_any(s, t, command, finished_future) ==
  LET s0 == [s EXCEPT !.command[t] = command]
      id == CommandRequestID(command)
      current == s.requests_awaiting_response[id]
      s1 == IF ~is_status_request(command) THEN s0
            ELSE IF finished_future # NoFuture THEN register(s0, id, finished_future)
            ELSE IF current # NoFuture /\ s.fut[current[1]][current[2]] = "pending"
                 THEN [s0 EXCEPT !.fut[current[1]][current[2]] = "cancelled",
                                 !.requests_awaiting_response[id] = NoFuture]
                 ELSE [s0 EXCEPT !.requests_awaiting_response[id] = NoFuture]
  IN IF s1.write_lock = <<>>
     THEN connect([s1 EXCEPT !.write_lock = <<t>>], t)
     ELSE [s1 EXCEPT !.write_lock = Append(@, t), !.pc[t] = "write_lock"]

\* send_command going on without the Packet it builds first, whose
\* constructor validates the command
send_command_unvalidated(s, t, command, finished_future) ==
  LET s0 == [s EXCEPT !.command[t] = command]
      s1 == IF is_status_request(command) /\ finished_future # NoFuture
            THEN register(s0, CommandRequestID(command), finished_future)
            ELSE s0
  IN IF s1.write_lock = <<>>
     THEN connect([s1 EXCEPT !.write_lock = <<t>>], t)
     ELSE [s1 EXCEPT !.write_lock = Append(@, t), !.pc[t] = "write_lock"]

\* send_command, up to its first suspension.  Packet() raises ValueError
\* before anything else is done.
send_command(s, t, command, finished_future) ==
  LET s0 == [s EXCEPT !.command[t] = command]
      s1 == IF is_status_request(command) /\ finished_future # NoFuture
            THEN register(s0, CommandRequestID(command), finished_future)
            ELSE s0
  IN IF ~CommandPacket(command, s.address[t]).ok THEN send_raise(s0, t)
     ELSE IF s1.write_lock = <<>>
     THEN connect([s1 EXCEPT !.write_lock = <<t>>], t)
     ELSE [s1 EXCEPT !.write_lock = Append(@, t), !.pc[t] = "write_lock"]

\* a code that is None
NoCode == <<"None">>
\* code if code else ""
CodeOrEmpty(code) == IF code = NoCode \/ code = <<>> THEN <<>> ELSE code

\* Client.AuxState: an Enum with the values False and True.  A state
\* argument is a member of the Enum or a plain bool.
AuxState_INACTIVE == [enum |-> TRUE, value |-> FALSE]
AuxState_ACTIVE == [enum |-> TRUE, value |-> TRUE]
Bool(b) == [enum |-> FALSE, value |-> b]
\* the truth value of a state argument: Enum defines neither __bool__ nor
\* __len__, so each of its members is true; a bool is its own truth value
Truthy(state) == state.enum \/ state.value

arm_away(s, t, code) ==
  send_command(s, t, <<"A">> \o CodeOrEmpty(code) \o <<"E">>, NoFuture)

arm_home(s, t, code) ==
  send_command(s, t, <<"H">> \o CodeOrEmpty(code) \o <<"E">>, NoFuture)

disarm(s, t, code) ==
  send_command(s, t, CodeOrEmpty(code) \o <<"E">>, NoFuture)

panic_without_star(s, t, code) ==
  send_command(s, t, CodeOrEmpty(code) \o <<"E">>, NoFuture)

panic(s, t, code) ==
  send_command(s, t, <<"*">> \o CodeOrEmpty(code) \o <<"E">>, NoFuture)

enter_user_program_mode(s, t, master_code) ==
  send_command(s, t, <<"M">> \o CodeOrEmpty(master_code) \o <<"E">>, NoFuture)

enter_installer_program_mode(s, t, installer_code) ==
  send_command(s, t, <<"M">> \o CodeOrEmpty(installer_code) \o <<"E">>, NoFuture)

exit_program_mode(s, t) == send_command(s, t, <<"M", "E">>, NoFuture)

\* "{}{}{}".format(output_id, output_id, "*" if state else "#")
aux(s, t, output_id, state) ==
  send_command(s, t, <<Digits[output_id + 1], Digits[output_id + 1],
                       IF Truthy(state) THEN "*" ELSE "#">>, NoFuture)

\* request_and_wait_status_update looping `while retries >= 0`
request_loop_off_by_one(s, c) ==
  IF s.retries[c] >= 0
  THEN LET k == s.attempt[c] + 1
       IN send_command([s EXCEPT !.attempt[c] = k, !.fut[c][k] = "pending"],
                       c, StatusCommand(s.req[c]), <<c, k>>)
  ELSE [s EXCEPT !.pc[c] = "done", !.result[c] = NoEvent]

\* request_and_wait_status_update: `while retries > 0`
request_loop(s, c) ==
  IF s.retries[c] > 0
  THEN LET k == s.attempt[c] + 1
       IN send_command([s EXCEPT !.attempt[c] = k, !.fut[c][k] = "pending"],
                       c, StatusCommand(s.req[c]), <<c, k>>)
  ELSE [s EXCEPT !.pc[c] = "done", !.result[c] = NoEvent]

\* update(): asyncio.gather of three send_command coroutines
update(s) ==
  LET s1 == send_command(s, "u1", StatusCommand(ZONE_INPUT_UNSEALED), NoFuture)
      s2 == send_command(s1, "u2", StatusCommand(ZONE_IN_ALARM), NoFuture)
  IN send_command(s2, "u3", StatusCommand(ARMING), NoFuture)

\* _update_loop: `while not self._closed` after a sleep
update_loop(s) ==
  IF s.closed THEN [s EXCEPT !.pc["upd"] = "done"]
  ELSE [update(s) EXCEPT !.pc["upd"] = "updating", !.updates = @ + 1]

\* _recv_loop taking the write lock before it connects
recv_loop_write_locked(s) ==
  IF s.closed THEN [s EXCEPT !.pc["recv"] = "done"]
  ELSE IF s.write_lock = <<>>
       THEN connect([s EXCEPT !.write_lock = <<"recv">>], "recv")
       ELSE [s EXCEPT !.write_lock = Append(@, "recv"), !.pc["recv"] = "write_lock"]

\* _recv_loop: `while not self._closed`
recv_loop(s) ==
  IF s.closed THEN [s EXCEPT !.pc["recv"] = "done"] ELSE connect(s, "recv")

\* _recv_loop handing a StatusUpdate to whichever request is pending, by
\* table order instead of by the event's request id
resolve_waiter_any_slot(s, event) ==
  LET pending == {r \in RequestID : s.requests_awaiting_response[r] # NoFuture}
  IN IF pending # {}
     THEN LET r == CHOOSE x \in pending : \A y \in pending : x <= y
              f == s.requests_awaiting_response[r]
              s1 == IF s.fut[f[1]][f[2]] = "pending"
                    THEN [s EXCEPT !.fut[f[1]][f[2]] = "done",
                                   !.fut_result[f[1]] = event,
                                   !.resumed[f[1]] = s.preempted[f[1]]]
                    ELSE s
          IN [s1 EXCEPT !.requests_awaiting_response[r] = NoFuture]
     ELSE s

\* _recv_loop setting the result of whatever future the slot holds, a
\* cancelled one included
resolve_waiter_stale(s, event) ==
  LET f == s.requests_awaiting_response[event.request_id]
  IN IF f # NoFuture
     THEN [s EXCEPT !.fut[f[1]][f[2]] = "done",
                    !.fut_result[f[1]] = event,
                    !.resumed[f[1]] = s.preempted[f[1]],
                    !.requests_awaiting_response[event.request_id] = NoFuture]
     ELSE s

\* _recv_loop: a decoded StatusUpdate is matched against the pending requests
resolve_waiter(s, event) ==
  LET f == s.requests_awaiting_response[event.request_id]
  IN IF f # NoFuture
     THEN LET s1 == IF s.fut[f[1]][f[2]] = "pending"
                    THEN [s EXCEPT !.fut[f[1]][f[2]] = "done",
                                   !.fut_result[f[1]] = event,
                                   !.resumed[f[1]] = s.preempted[f[1]]]
                    ELSE s   \* InvalidStateError, logged
          IN [s1 EXCEPT !.requests_awaiting_response[event.request_id] = NoFuture]
     ELSE s

\* _recv_loop calling the event-received callback only in the branch that
\* found no waiter
dispatch_event_else_only(s, event) ==
  LET matched == IsStatusUpdate(event) /\ s.requests_awaiting_response[event.request_id] # NoFuture
      s1 == IF IsStatusUpdate(event) THEN resolve_waiter(s, event) ELSE s
      s2 == IF s1.on_event_received /\ ~matched
            THEN [s1 EXCEPT !.cb_log = Append(@, event)] ELSE s1
      a  == handle_event(s2.alarm, event)
      s3 == [s2 EXCEPT !.alarm = a, !.handled_log = Append(@, event)]
  IN IF a.raised THEN [s3 EXCEPT !.pc["recv"] = "crashed"] ELSE s3

\* _recv_loop: what is done with a decoded event
dispatch_event(s, event) ==
  LET s1 == IF IsStatusUpdate(event) THEN resolve_waiter(s, event) ELSE s
      s2 == IF s1.on_event_received THEN [s1 EXCEPT !.cb_log = Append(@, event)] ELSE s1
      a  == handle_event(s2.alarm, event)
      s3 == [s2 EXCEPT !.alarm = a, !.handled_log = Append(@, event)]
  IN IF a.raised THEN [s3 EXCEPT !.pc["recv"] = "crashed"] ELSE s3

\* _recv_loop catching only UnicodeDecodeError: a Packet or Event decoding
\* error ends the loop
recv_frame_uncaught(s, frame) ==
  LET s1 == [s EXCEPT !.last_recv = s.now, !.last_frame = s.now,
                      !.last_activity = s.now,
                      !.frames_log = Append(@, frame)]
  IN IF frame.fault = "ascii" THEN [s1 EXCEPT !.bad_received_packets = @ + 1]
     ELSE IF frame.fault = "empty" THEN s1
     ELSE IF frame.fault \in {"packet", "event"}
          THEN [s1 EXCEPT !.pc["recv"] = "crashed"]
     ELSE dispatch_event(s1, frame.event)

\* _recv_loop: one iteration of `while True` with data that is not None
recv_frame(s, frame) ==
  LET s1 == [s EXCEPT !.last_recv = s.now, !.last_frame = s.now,
                      !.last_activity = s.now,
                      !.frames_log = Append(@, frame)]
  IN IF frame.fault = "ascii" THEN [s1 EXCEPT !.bad_received_packets = @ + 1]
     ELSE IF frame.fault = "empty" THEN s1
     ELSE IF frame.fault \in {"packet", "event"}
          THEN [s1 EXCEPT !.bad_received_packets = @ + 1]
     ELSE dispatch_event(s1, frame.event)

\* _recv_loop: read() returned None
recv_none(s) ==
  recv_loop([connection_read_none(s) EXCEPT !.disconnection_count = @ + 1])

\* _connect: connect() returned; connected_count += 1; _last_recv = now
connect_succeeded(s, t) ==
  connect_loop([connection_connect(s) EXCEPT !.connected_count = @ + 1,
                                             !.last_recv = s.now,
                                             !.last_activity = s.now,
                                             !.last_frame = IF @ = NoTime THEN s.now ELSE @], t)

\* close()
close(s) == [connection_close([s EXCEPT !.closed = TRUE]) EXCEPT !.pc["closer"] = "done"]


(***************************************************************************)
(* State                                                                   *)
(***************************************************************************)
VARIABLES
  arming_state, arming_mode, zones, infer_arming_state,
  state_calls, zone_calls, alarm_raised, closed,
  link, connect_lock, write_lock, pc,
  now, last_recv, last_sent_time, connected_count,
  disconnection_count, bad_received_packets, requests_awaiting_response, on_event_received,
  command, req, retries, retries_arg, attempt,
  fut, fut_result, result, frames_log,
  cb_log, handled_log, writes, transport_closes,
  transport_connects, transport_downs, conn_call, last_frame,
  last_activity, preempted, resumed, timeouts,
  updates, call, address_arg,
  codec_pc, pkt_args, pkt, wire, wire_orig, decoded, reencoded,
  ev_pc, ev_packet, decoded_event, encoded_event, flag_enum, flag_items, packed, unpacked,
  emu_state, emu_arming_mode, emu_pending_event, emu_threads,
  emu_event_queue, emu_events_written, emu_commands, emu_disarmed,
  pace_now, pace_last_sent_time, pace_write_lock, pace_pc, pace_wake, pace_writes

alarm_vars == <<arming_state, arming_mode, zones, infer_arming_state, state_calls, zone_calls, alarm_raised>>

client_vars ==
  <<closed, link, connect_lock, write_lock,
    pc, now, last_recv, last_sent_time,
    connected_count, disconnection_count, bad_received_packets, requests_awaiting_response,
    on_event_received, command, req, retries, retries_arg,
    attempt, fut, fut_result, result,
    frames_log, cb_log, handled_log, writes,
    transport_closes, transport_connects, transport_downs, conn_call,
    last_frame, last_activity, preempted, resumed,
    timeouts, updates, call, address_arg>>

\* the Packet under construction, on the wire and decoded
codec_vars == <<codec_pc, pkt_args, pkt, wire, wire_orig, decoded, reencoded>>

\* the events decoded and encoded, and the bitfields packed and unpacked
event_vars == <<ev_pc, ev_packet, decoded_event, encoded_event, flag_enum, flag_items, packed, unpacked>>

\* the alarm emulator of cli/server: its Alarm, the threads of _schedule and
\* the events written to the client
emulator_vars ==
  <<emu_state, emu_arming_mode, emu_pending_event, emu_threads,
    emu_event_queue, emu_events_written, emu_commands, emu_disarmed>>

\* send_command callers on a clock of tenths of a second
pacing_vars == <<pace_now, pace_last_sent_time, pace_write_lock, pace_pc, pace_wake, pace_writes>>

vars == <<alarm_vars, client_vars, codec_vars, event_vars, emulator_vars, pacing_vars>>

\* the Alarm object
TheAlarm ==
  [arming_state |-> arming_state,
   arming_mode |-> arming_mode,
   zones |-> zones,
   infer |-> infer_arming_state,
   state_calls |-> state_calls,
   zone_calls |-> zone_calls,
   raised |-> alarm_raised]

\* the Client object, its transport and its coroutines
Cur ==
  [alarm |-> TheAlarm,
   closed |-> closed,
   link |-> link,
   connect_lock |-> connect_lock,
   write_lock |-> write_lock,
   pc |-> pc,
   now |-> now,
   last_recv |-> last_recv,
   last_sent_time |-> last_sent_time,
   connected_count |-> connected_count,
   disconnection_count |-> disconnection_count,
   bad_received_packets |-> bad_received_packets,
   requests_awaiting_response |-> requests_awaiting_response,
   on_event_received |-> on_event_received,
   command |-> command,
   req |-> req,
   retries |-> retries,
   retries_arg |-> retries_arg,
   attempt |-> attempt,
   fut |-> fut,
   fut_result |-> fut_result,
   result |-> result,
   frames_log |-> frames_log,
   cb_log |-> cb_log,
   handled_log |-> handled_log,
   writes |-> writes,
   transport_closes |-> transport_closes,
   transport_connects |-> transport_connects,
   transport_downs |-> transport_downs,
   conn_call |-> conn_call,
   last_frame |-> last_frame,
   last_activity |-> last_activity,
   preempted |-> preempted,
   resumed |-> resumed,
   timeouts |-> timeouts,
   updates |-> updates,
   call |-> call,
   address |-> address_arg]

SetAlarm(a) ==
  /\ arming_state' = a.arming_state
  /\ arming_mode' = a.arming_mode
  /\ zones' = a.zones
  /\ infer_arming_state' = a.infer
  /\ state_calls' = a.state_calls
  /\ zone_calls' = a.zone_calls
  /\ alarm_raised' = a.raised

SetFields(s) ==
  /\ SetAlarm(s.alarm)
  /\ closed' = s.closed
  /\ link' = s.link
  /\ connect_lock' = s.connect_lock
  /\ write_lock' = s.write_lock
  /\ pc' = s.pc
  /\ now' = s.now
  /\ last_recv' = s.last_recv
  /\ last_sent_time' = s.last_sent_time
  /\ connected_count' = s.connected_count
  /\ disconnection_count' = s.disconnection_count
  /\ bad_received_packets' = s.bad_received_packets
  /\ requests_awaiting_response' = s.requests_awaiting_response
  /\ on_event_received' = s.on_event_received
  /\ command' = s.command
  /\ req' = s.req
  /\ retries' = s.retries
  /\ retries_arg' = s.retries_arg
  /\ attempt' = s.attempt
  /\ fut' = s.fut
  /\ fut_result' = s.fut_result
  /\ result' = s.result
  /\ frames_log' = s.frames_log
  /\ cb_log' = s.cb_log
  /\ handled_log' = s.handled_log
  /\ writes' = s.writes
  /\ transport_closes' = s.transport_closes
  /\ transport_connects' = s.transport_connects
  /\ transport_downs' = s.transport_downs
  /\ conn_call' = s.conn_call
  /\ last_frame' = s.last_frame
  /\ last_activity' = s.last_activity
  /\ preempted' = s.preempted
  /\ resumed' = s.resumed
  /\ timeouts' = s.timeouts
  /\ updates' = s.updates
  /\ call' = s.call
  /\ address_arg' = s.address
  /\ UNCHANGED <<codec_vars, event_vars, emulator_vars, pacing_vars>>

\* the next state is the record s, computed once
Set(s) == \E computed \in {s} : SetFields(computed)

\* the Client state that Alarm.handle_event, called on its own, leaves alone
client_vars_but_log ==
  <<closed, link, connect_lock, write_lock,
    pc, now, last_recv, last_sent_time,
    connected_count, disconnection_count, bad_received_packets, requests_awaiting_response,
    on_event_received, command, req, retries, retries_arg,
    attempt, fut, fut_result, result,
    frames_log, cb_log, writes, transport_closes,
    transport_connects, transport_downs, conn_call, last_frame,
    last_activity, preempted, resumed, timeouts,
    updates, call, address_arg, codec_vars, event_vars, emulator_vars, pacing_vars>>

(***************************************************************************)
(* Init: the state after Client.__init__ and Alarm.__init__.  `pc0` tells  *)
(* which coroutines the embedding application is going to run.             *)
(***************************************************************************)
ClientInit(pc0, infer, callback) ==
  [alarm |-> AlarmInit(infer),
   closed |-> FALSE,
   link |-> "down",
   connect_lock |-> <<>>,
   write_lock |-> <<>>,
   pc |-> pc0,
   now |-> 0,
   last_recv |-> NoTime,
   last_sent_time |-> NoTime,
   connected_count |-> 0,
   disconnection_count |-> 0,
   bad_received_packets |-> 0,
   requests_awaiting_response |-> [r \in RequestID |-> NoFuture],
   on_event_received |-> callback,
   command |-> [t \in Senders |-> <<>>],
   req |-> [c \in Requesters |-> 0],
   retries |-> [c \in Requesters |-> 0],
   retries_arg |-> [c \in Requesters |-> 0],
   attempt |-> [c \in Requesters |-> 0],
   fut |-> [c \in Requesters |-> [k \in 1..(MaxRetries + 1) |-> "none"]],
   fut_result |-> [c \in Requesters |-> NoEvent],
   result |-> [c \in Requesters |-> NoEvent],
   frames_log |-> <<>>,
   cb_log |-> <<>>,
   handled_log |-> <<>>,
   writes |-> <<>>,
   transport_closes |-> 0,
   transport_connects |-> 0,
   transport_downs |-> 0,
   conn_call |-> [t \in Connectors |->
                    [silent |-> FALSE, idle |-> FALSE, closes |-> 0, attempted |-> FALSE]],
   last_frame |-> NoTime,
   last_activity |-> NoTime,
   preempted |-> [c \in Requesters |-> FALSE],
   resumed |-> [c \in Requesters |-> FALSE],
   timeouts |-> [c \in Requesters |-> 0],
   updates |-> 0,
   call |-> [t \in Senders |-> NoCall],
   address |-> [t \in Senders |-> 0]]

(***************************************************************************)
(* The alarm emulator (cli/server/alarm.py, cli/server/alarm_server.py).   *)
(* Its Alarm is the record e: state, arming_mode, _pending_event (0 for    *)
(* None, else the uuid of the latest _schedule), the threads _schedule     *)
(* started, and the events _alarm_state_changed wrote with write_event     *)
(* that the client has not handled yet.  The zones of the emulator and the *)
(* simulation of zone activity change no arming state and are left out.    *)
(***************************************************************************)
\* commands given to the emulator in one run
MaxCommands == 3

\* self._pending_event = None
NoPending == 0

\* Alarm.create(...): DISARMED, no mode, nothing scheduled
EmulatorInit ==
  [state |-> "DISARMED", arming_mode |-> None, pending_event |-> NoPending,
   threads |-> <<>>, queue |-> <<>>, written |-> 0]

\* the arming modes the emulator is armed with
ServerModes == {"ARMED_AWAY", "ARMED_HOME"}

\* mode_to_event: the event type of an Alarm.ArmingMode
mode_to_event(mode) ==
  CASE mode = "ARMED_AWAY" -> "ARMED_AWAY"
    [] mode = "ARMED_HOME" -> "ARMED_HOME"
    [] mode = "ARMED_DAY" -> "ARMED_DAY"
    [] mode = "ARMED_NIGHT" -> "ARMED_NIGHT"
    [] mode = "ARMED_VACATION" -> "ARMED_VACATION"

\* get_events_for_state_update: the event types yielded, in order
get_events_for_state_update(previous_state, state, mode) ==
  (IF state = "DISARMED" THEN <<"DISARMED">> ELSE <<>>)
  \o (IF state = "EXIT_DELAY" THEN <<mode_to_event(mode), "EXIT_DELAY_START">> ELSE <<>>)
  \o (IF state = "TRIPPED" THEN <<"ALARM">> ELSE <<>>)
  \o (IF \/ previous_state = "EXIT_DELAY" /\ state # previous_state
         \/ state = "ARMED"
      THEN <<"EXIT_DELAY_END">> ELSE <<>>)
  \o (IF state = "ENTRY_DELAY" THEN <<"ENTRY_DELAY_START">> ELSE <<>>)
  \o (IF previous_state = "ENTRY_DELAY" /\ state # previous_state
      THEN <<"ENTRY_DELAY_END">> ELSE <<>>)

\* AlarmServer._alarm_state_changed: one SystemStatusEvent with zone 0 and
\* area 0 is written per event type
alarm_state_changed(e, previous_state, state, mode) ==
  LET event_list == get_events_for_state_update(previous_state, state, mode)
  IN [e EXCEPT !.queue = @ \o event_list, !.written = @ + Len(event_list)]

\* Alarm._update_state: the callback, then the two assignments
server_update_state(e, state, mode) ==
  [alarm_state_changed(e, e.state, state, mode) EXCEPT !.state = state, !.arming_mode = mode]

\* Alarm._update_state_no_mode
server_update_state_no_mode(e, state) ==
  [alarm_state_changed(e, e.state, state, e.arming_mode) EXCEPT !.state = state]

\* Alarm._cancel_pending_update
cancel_pending_update(e) == [e EXCEPT !.pending_event = NoPending]

\* Alarm._schedule(delay, fn): a fresh uuid becomes the pending event and a
\* thread is started that sleeps for the delay
schedule(e, fn) ==
  LET uuid == Len(e.threads) + 1
  IN [cancel_pending_update(e) EXCEPT
        !.pending_event = uuid,
        !.threads = Append(@, [event |-> uuid, fn |-> fn, pc |-> "sleeping"])]

\* Alarm.arm(mode)
server_arm(e, mode) == schedule(server_update_state(e, "EXIT_DELAY", mode), "_arm_complete")

\* Alarm.disarm()
server_disarm(e) == server_update_state(cancel_pending_update(e), "DISARMED", None)

\* Alarm.trip(delay=...)
server_trip(e, with_delay) ==
  IF with_delay
  THEN schedule(server_update_state_no_mode(e, "ENTRY_DELAY"), "_trip_complete")
  ELSE server_update_state_no_mode(e, "TRIPPED")

\* _arm_complete and _trip_complete, the functions given to _schedule
scheduled_fn(e, fn) ==
  IF fn = "_arm_complete"
  THEN server_update_state_no_mode(e, "ARMED")
  ELSE server_update_state_no_mode(e, "TRIPPED")

\* the emulator's Alarm and the events in flight
TheEmulator ==
  [state |-> emu_state, arming_mode |-> emu_arming_mode,
   pending_event |-> emu_pending_event, threads |-> emu_threads,
   queue |-> emu_event_queue, written |-> emu_events_written]

SetEmulator(e) ==
  /\ emu_state' = e.state
  /\ emu_arming_mode' = e.arming_mode
  /\ emu_pending_event' = e.pending_event
  /\ emu_threads' = e.threads
  /\ emu_event_queue' = e.queue
  /\ emu_events_written' = e.written

not_emulator_vars == <<alarm_vars, client_vars, codec_vars, event_vars, pacing_vars>>

\* a command thread runs arm(mode), trip(delay=...) or disarm()
ServerArm(mode) ==
  /\ emu_commands < MaxCommands
  /\ SetEmulator(server_arm(TheEmulator, mode))
  /\ emu_commands' = emu_commands + 1
  /\ emu_disarmed' = FALSE
  /\ UNCHANGED not_emulator_vars

ServerTrip(with_delay) ==
  /\ emu_commands < MaxCommands
  /\ SetEmulator(server_trip(TheEmulator, with_delay))
  /\ emu_commands' = emu_commands + 1
  /\ emu_disarmed' = FALSE
  /\ UNCHANGED not_emulator_vars

ServerDisarm ==
  /\ emu_commands < MaxCommands
  /\ SetEmulator(server_disarm(TheEmulator))
  /\ emu_commands' = emu_commands + 1
  /\ emu_disarmed' = TRUE
  /\ UNCHANGED not_emulator_vars

\* _run in the thread of _schedule: time.sleep(delay) ends and
\* `event == self._pending_event` is evaluated
ScheduledWake(i) ==
  /\ i \in DOMAIN emu_threads
  /\ emu_threads[i].pc = "sleeping"
  /\ emu_threads' = [emu_threads EXCEPT ![i].pc =
       IF emu_threads[i].event = emu_pending_event THEN "calling" ELSE "exited"]
  /\ UNCHANGED <<emu_state, emu_arming_mode, emu_pending_event, emu_event_queue,
                 emu_events_written, emu_commands, emu_disarmed, not_emulator_vars>>

\* _run in the thread of _schedule: fn() is called.  No lock is held between
\* the comparison and the call, so commands run in between.
ScheduledRun(i) ==
  /\ i \in DOMAIN emu_threads
  /\ emu_threads[i].pc = "calling"
  /\ SetEmulator(scheduled_fn([TheEmulator EXCEPT !.threads[i].pc = "exited"], emu_threads[i].fn))
  /\ UNCHANGED <<emu_commands, emu_disarmed, not_emulator_vars>>

\* the client's receive loop hands the next event written to Alarm.handle_event
ClientHandles ==
  /\ emu_event_queue # <<>>
  /\ SetAlarm(handle_event(TheAlarm, SystemStatusEvent(Head(emu_event_queue), 0)))
  /\ emu_event_queue' = Tail(emu_event_queue)
  /\ UNCHANGED <<emu_state, emu_arming_mode, emu_pending_event, emu_threads,
                 emu_events_written, emu_commands, emu_disarmed,
                 client_vars, codec_vars, event_vars, pacing_vars>>

(***************************************************************************)
(* The pacing of send_command on a clock of tenths of a second.  The       *)
(* transport is connected, so _connect returns at once, and its write() is *)
(* awaited: it completes some time after it was called.  The record p      *)
(* holds the clock, _last_sent_time, the write lock, each caller's         *)
(* position, the end of its sleep and the log of writes with the time each *)
(* was called and completed.                                               *)
(***************************************************************************)
\* the clock stops here
MaxTenths == 5

\* send_command: `self._last_sent_time = now`, then write() is called
pace_write(p, t) ==
  [p EXCEPT !.last_sent_time = p.now,
            !.pc[t] = "writing",
            !.writes = Append(@, [by |-> t, start |-> p.now, end |-> NoTime])]

\* send_command: the pacing check and the sleep for the remainder
pace_check(p, t) ==
  IF /\ p.last_sent_time # NoTime
     /\ p.now - p.last_sent_time < DELAY_TENTHS_BETWEEN_SENDS
  THEN [p EXCEPT !.pc[t] = "pacing",
                 !.wake[t] = p.now + (DELAY_TENTHS_BETWEEN_SENDS - (p.now - p.last_sent_time))]
  ELSE pace_write(p, t)

\* send_command: `async with self._write_lock` and what follows it
pace_send_command(p, t) ==
  IF p.write_lock = <<>>
  THEN pace_check([p EXCEPT !.write_lock = <<t>>], t)
  ELSE [p EXCEPT !.write_lock = Append(@, t), !.pc[t] = "write_lock"]

ThePacing ==
  [now |-> pace_now, last_sent_time |-> pace_last_sent_time, write_lock |-> pace_write_lock,
   pc |-> pace_pc, wake |-> pace_wake, writes |-> pace_writes]

SetPacing(p) ==
  /\ pace_now' = p.now
  /\ pace_last_sent_time' = p.last_sent_time
  /\ pace_write_lock' = p.write_lock
  /\ pace_pc' = p.pc
  /\ pace_wake' = p.wake
  /\ pace_writes' = p.writes
  /\ UNCHANGED <<alarm_vars, client_vars, codec_vars, event_vars, emulator_vars>>

\* send_command is called
PaceSend(t) ==
  /\ pace_pc[t] = "idle"
  /\ SetPacing(pace_send_command(ThePacing, t))

\* a caller that waited for the write lock gets it
PaceLockAcquired(t) ==
  /\ pace_pc[t] = "write_lock"
  /\ Head(pace_write_lock) = t
  /\ SetPacing(pace_check(ThePacing, t))

\* asyncio.sleep(sleep_time) ends, `now` is read again
PaceWake(t) ==
  /\ pace_pc[t] = "pacing"
  /\ pace_now >= pace_wake[t]
  /\ SetPacing(pace_write(ThePacing, t))

\* write() completes and the write lock is released
PaceWriteDone(t) ==
  /\ pace_pc[t] = "writing"
  /\ SetPacing([ThePacing EXCEPT !.pc[t] = "done",
                                 !.write_lock = Release(@, t),
                                 !.writes[Len(pace_writes)].end = pace_now])

\* a tenth of a second passes
PaceTick ==
  /\ pace_now < MaxTenths
  /\ SetPacing([ThePacing EXCEPT !.now = @ + 1])

InitFrom(s) ==
  /\ arming_state = s.alarm.arming_state
  /\ arming_mode = s.alarm.arming_mode
  /\ zones = s.alarm.zones
  /\ infer_arming_state = s.alarm.infer
  /\ state_calls = s.alarm.state_calls
  /\ zone_calls = s.alarm.zone_calls
  /\ alarm_raised = s.alarm.raised
  /\ closed = s.closed
  /\ link = s.link
  /\ connect_lock = s.connect_lock
  /\ write_lock = s.write_lock
  /\ pc = s.pc
  /\ now = s.now
  /\ last_recv = s.last_recv
  /\ last_sent_time = s.last_sent_time
  /\ connected_count = s.connected_count
  /\ disconnection_count = s.disconnection_count
  /\ bad_received_packets = s.bad_received_packets
  /\ requests_awaiting_response = s.requests_awaiting_response
  /\ on_event_received = s.on_event_received
  /\ command = s.command
  /\ req = s.req
  /\ retries = s.retries
  /\ retries_arg = s.retries_arg
  /\ attempt = s.attempt
  /\ fut = s.fut
  /\ fut_result = s.fut_result
  /\ result = s.result
  /\ frames_log = s.frames_log
  /\ cb_log = s.cb_log
  /\ handled_log = s.handled_log
  /\ writes = s.writes
  /\ transport_closes = s.transport_closes
  /\ transport_connects = s.transport_connects
  /\ transport_downs = s.transport_downs
  /\ conn_call = s.conn_call
  /\ last_frame = s.last_frame
  /\ last_activity = s.last_activity
  /\ preempted = s.preempted
  /\ resumed = s.resumed
  /\ timeouts = s.timeouts
  /\ updates = s.updates
  /\ call = s.call
  /\ address_arg = s.address
  /\ codec_pc = "idle"
  /\ pkt_args = NotRun
  /\ pkt = NotRun
  /\ wire = <<>>
  /\ wire_orig = <<>>
  /\ decoded = NotRun
  /\ reencoded = <<>>
  /\ ev_pc = "idle"
  /\ ev_packet = NotRun
  /\ decoded_event = NotRun
  /\ encoded_event = NotRun
  /\ flag_enum = None
  /\ flag_items = {}
  /\ packed = NotRun
  /\ unpacked = NotRun
  /\ emu_state = EmulatorInit.state
  /\ emu_arming_mode = EmulatorInit.arming_mode
  /\ emu_pending_event = EmulatorInit.pending_event
  /\ emu_threads = EmulatorInit.threads
  /\ emu_event_queue = EmulatorInit.queue
  /\ emu_events_written = EmulatorInit.written
  /\ emu_commands = 0
  /\ emu_disarmed = FALSE
  /\ pace_now = 0
  /\ pace_last_sent_time = NoTime
  /\ pace_write_lock = <<>>
  /\ pace_pc = [t \in UpdateSenders |-> "idle"]
  /\ pace_wake = [t \in UpdateSenders |-> 0]
  /\ pace_writes = <<>>

\* no coroutine runs: the Alarm is driven directly
PcAlarmOnly == [t \in Tasks |-> "off"]
\* the receive loop and two request_and_wait_status_update callers
PcSession == [t \in Tasks |-> IF t = "recv" THEN "start"
                              ELSE IF t \in Requesters THEN "idle" ELSE "off"]
\* keepalive() and a later close()
PcKeepalive == [t \in Tasks |-> IF t \in {"recv", "upd"} THEN "start"
                                ELSE IF t \in UpdateSenders \cup {"closer"} THEN "idle"
                                ELSE "off"]

\* keepalive() and two callers of the command methods
PcCommand == [t \in Tasks |-> IF t = "recv" THEN "start"
                              ELSE IF t \in {"u1", "u2"} THEN "idle" ELSE "off"]

\* keepalive() and one request_and_wait_status_update caller
PcUpdate == [t \in Tasks |-> IF t \in {"recv", "upd"} THEN "start"
                             ELSE IF t \in UpdateSenders \cup {"r1"} THEN "idle"
                             ELSE "off"]

(***************************************************************************)
(* Inputs                                                                  *)
(***************************************************************************)
\* zone numbers of UNSEALED/SEALED events: the first and the last zone
ZoneSamples == {1, NumZones}

\* events handed to Alarm.handle_event in SpecAlarm
AlarmEvents ==
  {SystemStatusEvent(ty, 0) : ty \in EventType \ {"UNSEALED", "SEALED"}}
  \cup {SystemStatusEvent(ty, z) : ty \in {"UNSEALED", "SEALED"}, z \in ZoneSamples}

\* zone/user numbers a decoded SystemStatusEvent can carry (two decimal
\* digits): below, at and above the ends of the zone list
ZoneNumbers == {0, 1, NumZones, NumZones + 1, 99}

\* status sets of ArmingUpdate: no flag, AREA_1_ARMED alone, with
\* AREA_1_FULLY_ARMED, with another flag, and flags without AREA_1_ARMED
StatusSamples ==
  {{}, {"AREA_1_ARMED"}, {"AREA_1_ARMED", "AREA_1_FULLY_ARMED"},
   {"AREA_1_ARMED", "AREA_2_ARMED"}, {"AREA_1_FULLY_ARMED"}, {"MEMORY_MODE"}}

\* events handed to Alarm.handle_event in SpecArming: arming and alarm
\* events, zone events of every kind of zone number, and ArmingUpdates
ArmingEvents ==
  {SystemStatusEvent(ty, 0) :
     ty \in {"ARMED_AWAY", "ARMED_HOME", "DISARMED", "ALARM", "ENTRY_DELAY_START",
             "EXIT_DELAY_START", "EXIT_DELAY_END"}}
  \cup {SystemStatusEvent(ty, z) : ty \in {"UNSEALED", "SEALED"}, z \in ZoneNumbers}
  \cup {ArmingUpdate(status) : status \in StatusSamples}

\* included_zones of the ZoneUpdates: none, the first, both ends, all
ZoneSetSamples == {{}, {1}, {1, NumZones}, {2, NumZones}, 1..NumZones}

\* events handed to Alarm.handle_event in SpecZones: ZoneUpdates of both
\* request ids, zone events (zone number 0 included) and arming events
ZoneEvents ==
  {ZoneUpdate(ZONE_INPUT_UNSEALED, zs) : zs \in ZoneSetSamples}
  \cup {ZoneUpdate(ZONE_IN_ALARM, zs) : zs \in {{}, {1}, {NumZones}}}
  \cup {SystemStatusEvent(ty, z) : ty \in {"UNSEALED", "SEALED"}, z \in {0, 1, NumZones}}
  \cup {SystemStatusEvent(ty, 0) : ty \in {"ALARM", "DISARMED", "ARMED_AWAY"}}
  \cup {ArmingUpdate({})}

\* frames the transport delivers in the session specifications
FrameSamples ==
  {Frame(f, NoEvent) : f \in FrameFaults \cup {"empty"}}
  \cup {Frame("ok", SystemStatusEvent("ARMED_AWAY", 0)),
        Frame("ok", ZoneUpdate(ZONE_INPUT_UNSEALED, {1})),
        Frame("ok", ArmingUpdate({"AREA_1_ARMED"}))}

\* request ids the callers ask for
RequestSamples == {ZONE_INPUT_UNSEALED, ARMING}

\* what the clock advances by: up to and just over the staleness limit
TickSteps == {update_interval + STALE_SLACK_SECONDS, update_interval + STALE_SLACK_SECONDS + 1}

(***************************************************************************)
(* Inputs of the Packet constructor and of Packet.decode                   *)
(***************************************************************************)
\* str * n
RECURSIVE Repeat(_, _)
Repeat(str, n) == IF n = 0 THEN <<>> ELSE str \o Repeat(str, n - 1)

\* data arguments: valid and invalid for each kind of packet
DataSamples ==
  {<<"0", "0", "0", "0", "0", "0">>,
   <<"0", "0", "a", "1", "F", "0">>,
   <<"S", "0", "0">>,
   <<"A", "1", "2", "3", "4", "E">>,
   <<>>,
   <<"0", "0", "0", "0", "0">>,
   <<"G", "0", "0", "0", "0", "0">>,
   <<"B">>,
   Repeat(<<"1">>, USER_INTERFACE_REQUEST_DATA_SIZE_MAX),
   Repeat(<<"1">>, USER_INTERFACE_REQUEST_DATA_SIZE_MAX + 1)}

\* address arguments: None, in range, and out of range on either side
AddressSamples == {NoAddress, ADDRESS_MIN, 10, ADDRESS_MAX, ADDRESS_MAX + 1, 0 - 2}

\* seq arguments
SeqSamples == {0, 1, 2}

\* timestamp arguments: None and 2024-01-02 03:04:05
TimestampSamples ==
  {NoTimestamp,
   [year |-> 2024, month |-> 1, day |-> 2, hour |-> 3, minute |-> 4, second |-> 5]}

\* frames read by Packet.decode, without their CRLF
WireBodies ==
  {
   \* too short without its CRLF
   <<"8", "3", "0", "0", "c", "6", "0">>,
   \* canonical UI request
   <<"8", "3", "0", "0", "C", "6", "0", "1", "2", "3", "4", "5", "6", "7", "8", "9", "1", "2", "E", "0", "7">>,
   \* UI request, with delay marker
   <<"8", "3", "0", "0", "3", "6", "0", "S", "0", "0", "E", "9", "?">>,
   \* UI request, length in lower case
   <<"8", "3", "0", "0", "c", "6", "0", "1", "2", "3", "4", "5", "6", "7", "8", "9", "1", "2", "E", "E", "7">>,
   \* UI request, address in lower case
   <<"8", "3", "a", "0", "1", "6", "0", "A", "2", "C">>,
   \* UI request, start byte 03
   <<"0", "3", "0", "0", "1", "6", "0", "A", "6", "5">>,
   \* UI response
   <<"8", "2", "0", "0", "0", "3", "6", "0", "0", "0", "0", "0", "0", "0", "1", "b">>,
   \* UI response, checksum in upper case
   <<"8", "2", "0", "0", "0", "3", "6", "0", "0", "0", "0", "0", "0", "0", "1", "B">>,
   \* system status
   <<"8", "2", "0", "3", "6", "1", "0", "0", "0", "0", "0", "0", "1", "a">>,
   \* system status, sequence bit set
   <<"8", "2", "8", "3", "6", "1", "0", "0", "0", "0", "0", "0", "9", "a">>,
   \* system status with address
   <<"8", "3", "0", "0", "0", "3", "6", "1", "0", "0", "0", "0", "0", "0", "1", "9">>,
   \* system status with address, start byte 82
   <<"8", "2", "0", "0", "0", "3", "6", "1", "0", "0", "0", "0", "0", "0", "1", "a">>,
   \* system status with timestamp
   <<"8", "6", "0", "3", "6", "1", "0", "0", "0", "0", "0", "0", "1", "8", "0", "9", "2", "1", "1", "8", "3", "7", "0", "9", "7", "c">>,
   \* system status with timestamp, minute 60
   <<"8", "6", "0", "3", "6", "1", "0", "0", "0", "0", "0", "0", "1", "8", "0", "9", "2", "1", "1", "8", "6", "0", "0", "9", "5", "3">>,
   \* system status with timestamp, hour 23 and minute 60
   <<"8", "6", "0", "3", "6", "1", "0", "0", "0", "0", "0", "0", "1", "8", "0", "9", "2", "1", "2", "3", "6", "0", "0", "9", "4", "8">>,
   \* system status with address and timestamp
   <<"8", "7", "0", "0", "0", "3", "6", "1", "0", "0", "0", "0", "0", "0", "1", "8", "0", "9", "2", "1", "1", "8", "3", "7", "0", "9", "7", "b">>,
   \* wrong checksum
   <<"8", "2", "0", "0", "0", "3", "6", "0", "0", "0", "0", "0", "0", "0", "1", "a">>,
   \* UI request, checksum in lower case
   <<"8", "3", "0", "0", "c", "6", "0", "1", "2", "3", "4", "5", "6", "7", "8", "9", "1", "2", "E", "e", "7">>,
   \* UI request, checksum not hexadecimal
   <<"8", "3", "0", "0", "c", "6", "0", "1", "2", "3", "4", "5", "6", "7", "8", "9", "1", "2", "E", "X", "7">>,
   \* data not hexadecimal
   <<"8", "2", "0", "0", "0", "3", "6", "0", "X", "0", "0", "0", "0", "0", "1", "b">>,
   \* UI response with the sequence bit
   <<"8", "2", "0", "0", "8", "3", "6", "0", "0", "0", "0", "0", "0", "0", "9", "b">>,
   \* address 21
   <<"8", "2", "1", "5", "0", "3", "6", "0", "0", "0", "0", "0", "0", "0", "0", "6">>,
   \* length beyond the data
   <<"8", "3", "0", "0", "f", "6", "0", "1", "2", "3", "4", "5", "6", "7", "8", "9", "1", "2", "E", "E", "4">>,
   \* length short of the data
   <<"8", "3", "0", "0", "5", "6", "0", "1", "2", "3", "4", "5", "6", "7", "8", "9", "1", "2", "E", "1", "5">>,
   \* month 0
   <<"8", "6", "0", "4", "6", "1", "0", "0", "0", "0", "0", "0", "1", "8", "0", "9", "2", "1", "1", "8", "3", "7", "0", "9", "0", "0", "7", "b">>,
   \* command 04
   <<"8", "2", "0", "0", "0", "4", "6", "0", "0", "0", "0", "0", "0", "0", "0", "0", "1", "a">>
  }

\* the frames as they are read
WireSamples == {body \o <<CR, LF>> : body \in WireBodies} \cup WireBodies

\* characters written over a character of a checksum field
ChecksumChars == {"0", "1", "7", "9", "a", "b", "c", "e", "A", "B", "C", "E", "G"}

(***************************************************************************)
(* Actions                                                                 *)
(***************************************************************************)
\* Alarm.handle_event(event), called directly
HandleEvent(event) ==
  /\ Len(handled_log) < MaxEvents
  /\ SetAlarm(handle_event(TheAlarm, event))
  /\ handled_log' = Append(handled_log, event)
  /\ UNCHANGED client_vars_but_log

\* keepalive(): the receive loop runs up to its first suspension, the update
\* loop goes to sleep
Keepalive ==
  /\ pc["recv"] = "start"
  /\ Set([recv_loop(Cur) EXCEPT !.pc["upd"] = IF @ = "start" THEN "sleep" ELSE @])

\* a coroutine waiting for the write lock gets it
WriteLockAcquired(t) ==
  /\ pc[t] = "write_lock"
  /\ Head(write_lock) = t
  /\ Set(connect(Cur, t))

\* a coroutine waiting for the connect lock gets it
ConnectLockAcquired(t) ==
  /\ pc[t] = "connect_lock"
  /\ Head(connect_lock) = t
  /\ Set(connect_locked(Cur, t))

\* the transport accepts the connection
ConnectSucceeds(t) ==
  /\ pc[t] = "connecting"
  /\ transport_connects < MaxConnects
  /\ Set(connect_succeeded(Cur, t))

\* connect() raises ConnectionRefusedError or OSError: sleep the backoff
ConnectRefused(t) ==
  /\ pc[t] = "connecting"
  /\ Set([Cur EXCEPT !.pc[t] = "backoff"])

\* the backoff sleep ends
BackoffWake(t) ==
  /\ pc[t] = "backoff"
  /\ Set(connect_loop(Cur, t))

\* the pacing sleep ends
PacingWake(t) ==
  /\ pc[t] = "pacing"
  /\ Set(send_write(Cur, t))

\* request_and_wait_status_update(req_id, retries=n) is called
Request(c, req_id, n) ==
  /\ pc[c] = "idle"
  /\ Set(request_loop([Cur EXCEPT !.req[c] = req_id, !.retries[c] = n,
                                   !.retries_arg[c] = n], c))

\* wait_for ends because the future was resolved or cancelled
WaitDone(c) ==
  /\ pc[c] = "waiting"
  /\ fut[c][attempt[c]] \in {"done", "cancelled"}
  /\ Set(wait_for(Cur, c))

\* wait_for times out: it cancels the future and raises TimeoutError
WaitTimeout(c) ==
  /\ pc[c] = "waiting"
  /\ fut[c][attempt[c]] = "pending"
  /\ Set(request_retry([Cur EXCEPT !.fut[c][attempt[c]] = "cancelled"], c))

\* read() returns a frame
ReadFrame(frame) ==
  /\ pc["recv"] = "reading"
  /\ link = "up"
  /\ Len(frames_log) < MaxFrames
  /\ Set(recv_frame(Cur, frame))

\* read() returns None
ReadNone ==
  /\ pc["recv"] = "reading"
  /\ connection_at_eof(Cur)
  /\ Set(recv_none(Cur))

\* the panel closes the connection
PanelDisconnect ==
  /\ link = "up"
  /\ Set([Cur EXCEPT !.link = "eof"])

\* time passes.  The clock advances in steps longer than any sleep of the
\* program (the pacing sleep, the wait_for timeout, the backoff, the update
\* interval), so it advances only while no coroutine is in one of them.
Tick(d) ==
  /\ now + d <= MaxTime
  /\ \A t \in Tasks : pc[t] \notin {"pacing", "waiting", "backoff", "sleep"}
  /\ Set([Cur EXCEPT !.now = @ + d])

\* close() is called
Close ==
  /\ pc["closer"] = "idle"
  /\ Set(close(Cur))

\* the update-interval sleep ends
UpdateWake ==
  /\ pc["upd"] = "sleep"
  /\ closed \/ updates < MaxUpdates
  /\ Set(update_loop(Cur))

\* update(): the gather of the three send_command coroutines completes
UpdateGathered ==
  /\ pc["upd"] = "updating"
  /\ \A u \in UpdateSenders : pc[u] = "done"
  /\ Set([Cur EXCEPT !.pc = [t \in Tasks |-> IF t = "upd" THEN "sleep"
                                             ELSE IF t \in UpdateSenders THEN "idle"
                                             ELSE @[t]]])

\* update(): one of the gathered coroutines raised; the update loop ends with
\* that exception
UpdateRaised ==
  /\ pc["upd"] = "updating"
  /\ \E u \in UpdateSenders : pc[u] = "raised"
  /\ Set([Cur EXCEPT !.pc["upd"] = "raised"])

(***************************************************************************)
(* Packet operations applied to the inputs                                 *)
(***************************************************************************)
\* the codes given to the command methods: None, the empty string, two user
\* codes, and a code with a character the keypad does not have
CodeSamples == {NoCode, <<>>, <<"1", "2", "3", "4">>, <<"0", "0", "0", "0", "0", "0">>,
                <<"1", "2", "a", "4">>}
\* the outputs given to aux
OutputSamples == {1, 4}
\* the states given to aux
AuxStateSamples == {AuxState_INACTIVE, AuxState_ACTIVE, Bool(FALSE), Bool(TRUE)}

\* the record of a call of a command method
Called(method, code) == [NoCall EXCEPT !.method = method, !.code = code]

\* arm_away(code) is called
ArmAway(t, code) ==
  /\ pc[t] = "idle"
  /\ Set(arm_away([Cur EXCEPT !.call[t] = Called("arm_away", code)], t, code))

\* arm_home(code) is called
ArmHome(t, code) ==
  /\ pc[t] = "idle"
  /\ Set(arm_home([Cur EXCEPT !.call[t] = Called("arm_home", code)], t, code))

\* disarm(code) is called
Disarm(t, code) ==
  /\ pc[t] = "idle"
  /\ Set(disarm([Cur EXCEPT !.call[t] = Called("disarm", code)], t, code))

\* panic(code) is called
Panic(t, code) ==
  /\ pc[t] = "idle"
  /\ Set(panic([Cur EXCEPT !.call[t] = Called("panic", code)], t, code))

\* enter_user_program_mode(master_code) is called
EnterUserProgramMode(t, code) ==
  /\ pc[t] = "idle"
  /\ Set(enter_user_program_mode(
           [Cur EXCEPT !.call[t] = Called("enter_user_program_mode", code)], t, code))

\* enter_installer_program_mode(installer_code) is called
EnterInstallerProgramMode(t, code) ==
  /\ pc[t] = "idle"
  /\ Set(enter_installer_program_mode(
           [Cur EXCEPT !.call[t] = Called("enter_installer_program_mode", code)], t, code))

\* exit_program_mode() is called
ExitProgramMode(t) ==
  /\ pc[t] = "idle"
  /\ Set(exit_program_mode([Cur EXCEPT !.call[t] = Called("exit_program_mode", <<>>)], t))

\* aux(output_id, state) is called
Aux(t, output_id, state) ==
  /\ pc[t] = "idle"
  /\ Set(aux([Cur EXCEPT !.call[t] = [NoCall EXCEPT !.method = "aux",
                                                    !.output_id = output_id,
                                                    !.state = state]],
             t, output_id, state))

\* the data of System Status packets: each event family, both cases of the
\* hexadecimal digits, the F0 zone, and data that decode rejects
SystemStatusData ==
  {<<"0", "0", "0", "1", "0", "0">>, <<"0", "0", "0", "1", "a", "1">>,
   <<"0", "0", "0", "1", "A", "1">>, <<"0", "2", "f", "0", "0", "0">>,
   <<"0", "2", "F", "0", "0", "0">>, <<"0", "0", "f", "0", "0", "0">>,
   <<"0", "3", "f", "0", "a", "1">>, <<"0", "1", "9", "9", "0", "0">>,
   <<"2", "f", "0", "1", "0", "0">>, <<"2", "F", "0", "1", "0", "0">>,
   <<"2", "4", "0", "1", "0", "3">>, <<"3", "1", "9", "0", "0", "0">>,
   <<"0", "a", "0", "1", "0", "0">>, <<"0", "0", "a", "1", "0", "0">>,
   <<"1", "9", "0", "0", "0", "0">>, <<"5", "0", "0", "1", "0", "0">>}

\* the data of Status Update responses: every request id family, all bits,
\* the bits no member has, both cases, and data that decode rejects
StatusUpdateData ==
  {<<"0", "0", "0", "0", "0", "0">>, <<"0", "0", "f", "f", "f", "f">>,
   <<"0", "0", "F", "F", "F", "F">>, <<"0", "5", "0", "0", "0", "1">>,
   <<"1", "2", "0", "9", "0", "0">>, <<"1", "3", "0", "1", "0", "0">>,
   <<"1", "3", "0", "0", "1", "f">>, <<"1", "3", "f", "f", "f", "f">>,
   <<"1", "4", "0", "0", "0", "1">>, <<"1", "4", "0", "0", "f", "f">>,
   <<"1", "4", "f", "0", "0", "0">>, <<"1", "4", "F", "0", "0", "0">>,
   <<"1", "5", "0", "0", "0", "0">>, <<"1", "5", "f", "f", "f", "f">>,
   <<"1", "6", "f", "0", "0", "0">>, <<"1", "6", "F", "0", "0", "0">>,
   <<"1", "6", "8", "0", "0", "0">>, <<"1", "6", "0", "0", "0", "0">>,
   <<"1", "7", "0", "0", "0", "0">>, <<"1", "7", "0", "4", "1", "a">>,
   <<"1", "7", "0", "4", "1", "A">>, <<"1", "7", "0", "a", "0", "0">>,
   <<"1", "8", "0", "0", "0", "1">>, <<"1", "8", "0", "0", "f", "f">>,
   <<"1", "8", "f", "f", "f", "f">>, <<"1", "9", "0", "0", "0", "0">>,
   <<"0", "a", "0", "0", "0", "0">>, <<"9", "9", "0", "0", "0", "0">>}

\* the data of UI requests: commands, and digits that read as a status update
RequestData ==
  {<<"S", "0", "0">>, <<"0", "0">>, <<"5">>, <<"0", "0", "0", "0", "0", "0">>,
   <<"0", "0", "0", "0", "0", "0", "0", "0">>, <<"A", "1", "2", "3", "4", "E">>,
   <<"1", "4", "F", "F", "F", "F">>, <<"1", "7", "0", "0", "0", "F">>,
   <<"0", "0", "0", "0", "0", "0", "0">>}

\* a Packet is given to BaseEvent.decode
EventPacket(cmd, data, address, seq, is_user_interface_resp) ==
  /\ ev_pc = "idle"
  /\ Packet(cmd, data, address, seq, NoTimestamp, is_user_interface_resp, FALSE).ok
  /\ ev_pc' = "packet"
  /\ ev_packet' = Packet(cmd, data, address, seq, NoTimestamp, is_user_interface_resp, FALSE)
  /\ UNCHANGED <<decoded_event, encoded_event, flag_enum, flag_items, packed, unpacked,
                 alarm_vars, client_vars, codec_vars, emulator_vars, pacing_vars>>

\* BaseEvent.decode(packet)
EventDecode ==
  /\ ev_pc = "packet"
  /\ ev_pc' = "decoded"
  /\ decoded_event' = BaseEvent_decode(ev_packet.val)
  /\ UNCHANGED <<ev_packet, encoded_event, flag_enum, flag_items, packed, unpacked,
                 alarm_vars, client_vars, codec_vars, emulator_vars, pacing_vars>>

\* encode() of the decoded event
EventEncode ==
  /\ ev_pc = "decoded"
  /\ decoded_event.ok
  /\ ev_pc' = "encoded"
  /\ encoded_event' = Event_encode(decoded_event.val)
  /\ UNCHANGED <<ev_packet, decoded_event, flag_enum, flag_items, packed, unpacked,
                 alarm_vars, client_vars, codec_vars, emulator_vars, pacing_vars>>

\* pack_unsigned_short_data_enum(items) of members of one flag enum
Pack(name, items) ==
  /\ ev_pc = "idle"
  /\ ev_pc' = "packed"
  /\ flag_enum' = name
  /\ flag_items' = items
  /\ packed' = pack_unsigned_short_data_enum(FlagEnum(name), items)
  /\ UNCHANGED <<ev_packet, decoded_event, encoded_event, unpacked,
                 alarm_vars, client_vars, codec_vars, emulator_vars, pacing_vars>>

\* unpack_unsigned_short_data_enum of a Status Update response that carries
\* the packed field after its request id
Unpack ==
  /\ ev_pc = "packed"
  /\ packed.ok
  /\ ev_pc' = "unpacked"
  /\ unpacked' = unpack_unsigned_short_data_enum(
                   ResponsePacket([address |-> 0], <<"0", "0">> \o packed.val).val,
                   FlagEnum(flag_enum))
  /\ UNCHANGED <<ev_packet, decoded_event, encoded_event, flag_enum, flag_items, packed,
                 alarm_vars, client_vars, codec_vars, emulator_vars, pacing_vars>>

\* Packet(...) is called
Construct(cmd, data, address, seq, timestamp, is_user_interface_resp, has_delay_marker) ==
  /\ codec_pc = "idle"
  /\ codec_pc' = "constructed"
  /\ pkt_args' = PacketFields(cmd, data, address, seq, timestamp,
                              is_user_interface_resp, has_delay_marker)
  /\ pkt' = Packet(cmd, data, address, seq, timestamp,
                   is_user_interface_resp, has_delay_marker)
  /\ UNCHANGED <<wire, wire_orig, decoded, reencoded, alarm_vars, client_vars, event_vars, emulator_vars, pacing_vars>>

\* encode() of the constructed Packet
Encode ==
  /\ codec_pc = "constructed"
  /\ pkt.ok
  /\ codec_pc' = "encoded"
  /\ wire' = Packet_encode(pkt.val)
  /\ UNCHANGED <<pkt_args, pkt, wire_orig, decoded, reencoded, alarm_vars, client_vars, event_vars, emulator_vars, pacing_vars>>

\* a frame arrives
Receive(str) ==
  /\ codec_pc = "idle"
  /\ codec_pc' = "received"
  /\ wire' = str
  /\ UNCHANGED <<pkt_args, pkt, wire_orig, decoded, reencoded, alarm_vars, client_vars, event_vars, emulator_vars, pacing_vars>>

\* the position in str of the first character of the checksum field
ChecksumPos(str) ==
  IF EndsWith(str, <<"?", CR, LF>>) THEN Len(str) - 4 ELSE Len(str) - 3

\* one character of the checksum field of a frame that Packet.decode accepts
\* is replaced by another
Corrupt(i, c) ==
  /\ codec_pc \in {"encoded", "received"}
  /\ Packet_decode(wire).ok
  /\ wire[ChecksumPos(wire) + i] # c
  /\ codec_pc' = "corrupted"
  /\ wire_orig' = wire
  /\ wire' = [wire EXCEPT ![ChecksumPos(wire) + i] = c]
  /\ UNCHANGED <<pkt_args, pkt, decoded, reencoded, alarm_vars, client_vars, event_vars, emulator_vars, pacing_vars>>

\* Packet.decode(wire)
Decode ==
  /\ codec_pc \in {"encoded", "received", "corrupted"}
  /\ codec_pc' = "decoded"
  /\ decoded' = Packet_decode(wire)
  /\ UNCHANGED <<pkt_args, pkt, wire, wire_orig, reencoded, alarm_vars, client_vars, event_vars, emulator_vars, pacing_vars>>

\* encode() of the decoded Packet
ReEncode ==
  /\ codec_pc = "decoded"
  /\ decoded.ok
  /\ codec_pc' = "reencoded"
  /\ reencoded' = Packet_encode(decoded.val)
  /\ UNCHANGED <<pkt_args, pkt, wire, wire_orig, decoded, alarm_vars, client_vars, event_vars, emulator_vars, pacing_vars>>

\* command strings given to send_command: a status request, a keypad
\* string, the empty string, 30 and 31 characters, and characters that are
\* not allowed (a lower-case letter; a status request with a space in it)
CommandSamples ==
  {<<"S", "0", "0">>, <<"A", "1", "2", "3", "4", "E">>,
   <<>>, Repeat(<<"1">>, USER_INTERFACE_REQUEST_DATA_SIZE_MAX),
   Repeat(<<"1">>, USER_INTERFACE_REQUEST_DATA_SIZE_MAX + 1),
   <<"1", "2", "a", "4">>, <<"S", " ", "0">>}

\* address arguments given to send_command: in and out of 0..15
SendAddressSamples == {0, ADDRESS_MAX, ADDRESS_MAX + 1, 0 - 1}

\* send_command(command, address, finished_future) is called directly, by
\* a requester, which passes a new future, or by another caller, which
\* passes none
SendCommand(t, command_string, addr) ==
  /\ pc[t] = "idle"
  /\ LET f == IF t \in Requesters THEN <<t, 1>> ELSE NoFuture
         s0 == [Cur EXCEPT !.address[t] = addr,
                           !.call[t] = Called("send_command", command_string)]
         s1 == IF t \in Requesters
               THEN [s0 EXCEPT !.attempt[t] = 1, !.fut[t][1] = "pending",
                               !.req[t] = IF is_status_request(command_string)
                                          THEN CommandRequestID(command_string) ELSE @]
               ELSE s0
     IN Set(send_command(s1, t, command_string, f))

(***************************************************************************)
(* Specifications                                                          *)
(***************************************************************************)
InitAlarm ==
  \E infer \in BOOLEAN : InitFrom(ClientInit(PcAlarmOnly, infer, FALSE))

NextAlarm == \E event \in AlarmEvents : HandleEvent(event)

SpecAlarm == InitAlarm /\ [][NextAlarm]_vars

\* Alarm.handle_event called with arming events, zone events and ArmingUpdates
NextArming == \E event \in ArmingEvents : HandleEvent(event)

SpecArming == InitAlarm /\ [][NextArming]_vars

\* Alarm.handle_event called with ZoneUpdates, zone events and arming events
NextZones == \E event \in ZoneEvents : HandleEvent(event)

SpecZones == InitAlarm /\ [][NextZones]_vars

\* the emulator runs commands and scheduled threads, the client handles the
\* events it writes
NextEmulator ==
  \/ \E mode \in ServerModes : ServerArm(mode)
  \/ \E with_delay \in BOOLEAN : ServerTrip(with_delay)
  \/ ServerDisarm
  \/ \E i \in 1..MaxCommands : ScheduledWake(i)
  \/ \E i \in 1..MaxCommands : ScheduledRun(i)
  \/ ClientHandles

SpecEmulator == InitAlarm /\ [][NextEmulator]_vars

\* three send_command callers, as update() gathers them, and the clock
InitPacing == InitFrom(ClientInit(PcAlarmOnly, FALSE, FALSE))

NextPacing ==
  \/ \E t \in UpdateSenders : PaceSend(t)
  \/ \E t \in UpdateSenders : PaceLockAcquired(t)
  \/ \E t \in UpdateSenders : PaceWake(t)
  \/ \E t \in UpdateSenders : PaceWriteDone(t)
  \/ PaceTick

SpecPacing == InitPacing /\ [][NextPacing]_vars

\* request_and_wait_status_update callers and the receive loop
Init == InitFrom(ClientInit(PcSession, FALSE, TRUE))

\* frames that answer a status request
ResponseSamples ==
  {Frame("ok", ZoneUpdate(ZONE_INPUT_UNSEALED, {1})),
   Frame("ok", ArmingUpdate({"AREA_1_ARMED"}))}

Next ==
  \/ Keepalive
  \/ \E t \in Requesters : WriteLockAcquired(t)
  \/ \E t \in Requesters \cup {"recv"} : ConnectLockAcquired(t)
  \/ \E t \in Requesters \cup {"recv"} : ConnectSucceeds(t)
  \/ \E t \in Requesters : PacingWake(t)
  \/ \E c \in Requesters, r \in RequestSamples, n \in 1..MaxRetries : Request(c, r, n)
  \/ \E c \in Requesters : WaitDone(c)
  \/ \E c \in Requesters : WaitTimeout(c)
  \/ \E frame \in ResponseSamples : ReadFrame(frame)

Spec == Init /\ [][Next]_vars

\* direct calls of send_command, with and without a future
PcSend == [t \in Tasks |-> IF t = "recv" THEN "start"
                           ELSE IF t \in Requesters THEN "idle" ELSE "off"]

SendCallers == Requesters

InitSend == InitFrom(ClientInit(PcSend, FALSE, FALSE))

NextSend ==
  \/ Keepalive
  \/ \E t \in SendCallers, command_string \in CommandSamples, addr \in SendAddressSamples :
       SendCommand(t, command_string, addr)
  \/ \E t \in SendCallers : WriteLockAcquired(t)
  \/ \E t \in SendCallers \cup {"recv"} : ConnectLockAcquired(t)
  \/ \E t \in SendCallers \cup {"recv"} : ConnectSucceeds(t)
  \/ \E t \in SendCallers : PacingWake(t)
  \/ ReadFrame(Frame("ok", ZoneUpdate(ZONE_INPUT_UNSEALED, {1})))
  \/ \E c \in Requesters : WaitDone(c)

SpecSend == InitSend /\ [][NextSend]_vars

\* the receive loop, fed good and bad frames, and one caller
PcReceive == [PcSession EXCEPT !["r2"] = "off"]

InitReceive ==
  \E callback \in BOOLEAN : InitFrom(ClientInit(PcReceive, FALSE, callback))

NextReceive ==
  \/ Keepalive
  \/ \E t \in {"r1", "recv"} : ConnectLockAcquired(t)
  \/ \E t \in {"r1", "recv"} : ConnectSucceeds(t)
  \/ PacingWake("r1")
  \/ \E r \in RequestSamples, n \in 1..MaxRetries : Request("r1", r, n)
  \/ WaitDone("r1")
  \/ WaitTimeout("r1")
  \/ \E frame \in FrameSamples : ReadFrame(frame)
  \/ ReadNone
  \/ PanelDisconnect

SpecReceive == InitReceive /\ [][NextReceive]_vars

\* connecting: refusals, disconnections and silent periods
NextConnect ==
  \/ Keepalive
  \/ \E t \in Requesters : WriteLockAcquired(t)
  \/ \E t \in Requesters \cup {"recv"} : ConnectLockAcquired(t)
  \/ \E t \in Requesters \cup {"recv"} : ConnectSucceeds(t)
  \/ \E t \in Requesters \cup {"recv"} : ConnectRefused(t)
  \/ \E t \in Requesters \cup {"recv"} : BackoffWake(t)
  \/ \E t \in Requesters : PacingWake(t)
  \/ \E c \in Requesters : Request(c, ZONE_INPUT_UNSEALED, 1)
  \/ \E c \in Requesters : WaitTimeout(c)
  \/ ReadFrame(Frame("empty", NoEvent))
  \/ ReadNone
  \/ PanelDisconnect
  \/ \E d \in TickSteps : Tick(d)

SpecConnect == Init /\ [][NextConnect]_vars

\* keepalive() and close()
InitKeepalive == InitFrom(ClientInit(PcKeepalive, FALSE, TRUE))

NextKeepalive ==
  \/ Keepalive
  \/ \E t \in UpdateSenders : WriteLockAcquired(t)
  \/ \E t \in UpdateSenders \cup {"recv"} : ConnectLockAcquired(t)
  \/ \E t \in UpdateSenders \cup {"recv"} : ConnectSucceeds(t)
  \/ \E t \in UpdateSenders \cup {"recv"} : ConnectRefused(t)
  \/ \E t \in UpdateSenders \cup {"recv"} : BackoffWake(t)
  \/ \E t \in UpdateSenders : PacingWake(t)
  \/ ReadFrame(Frame("ok", ArmingUpdate({"AREA_1_ARMED"})))
  \/ ReadNone
  \/ PanelDisconnect
  \/ UpdateWake
  \/ UpdateGathered
  \/ UpdateRaised
  \/ Close

SpecKeepalive == InitKeepalive /\ [][NextKeepalive]_vars


\* keepalive() and close(), every coroutine of the event loop being run when
\* it is ready; nothing is assumed of the panel, of the clock or of close()
FairKeepalive ==
  /\ SpecKeepalive
  /\ WF_vars(Keepalive)
  /\ \A t \in UpdateSenders : WF_vars(WriteLockAcquired(t))
  /\ \A t \in UpdateSenders \cup {"recv"} :
       /\ WF_vars(ConnectLockAcquired(t))
       /\ WF_vars(ConnectSucceeds(t) \/ ConnectRefused(t))
       /\ WF_vars(BackoffWake(t))
  /\ \A t \in UpdateSenders : WF_vars(PacingWake(t))
  /\ WF_vars(ReadNone)
  /\ WF_vars(UpdateWake)
  /\ WF_vars(UpdateGathered)
  /\ WF_vars(UpdateRaised)

\* update() called by the update loop while a status request is pending
InitUpdate == InitFrom(ClientInit(PcUpdate, FALSE, TRUE))

NextUpdate ==
  \/ Keepalive
  \/ \E t \in UpdateSenders \cup {"r1"} : WriteLockAcquired(t)
  \/ \E t \in UpdateSenders \cup {"r1", "recv"} : ConnectLockAcquired(t)
  \/ \E t \in UpdateSenders \cup {"r1", "recv"} : ConnectSucceeds(t)
  \/ \E t \in UpdateSenders \cup {"r1"} : PacingWake(t)
  \/ \E r \in {ZONE_INPUT_UNSEALED, ARMING} : Request("r1", r, 1)
  \/ WaitDone("r1")
  \/ WaitTimeout("r1")
  \/ \E frame \in ResponseSamples : ReadFrame(frame)
  \/ UpdateWake
  \/ UpdateGathered

SpecUpdate == InitUpdate /\ [][NextUpdate]_vars

\* the command methods, called by two coroutines while keepalive() runs
InitCommand == InitFrom(ClientInit(PcCommand, FALSE, FALSE))

CommandCallers == {"u1", "u2"}

NextCommand ==
  \/ Keepalive
  \/ \E t \in CommandCallers, code \in CodeSamples : ArmAway(t, code)
  \/ \E t \in CommandCallers, code \in CodeSamples : ArmHome(t, code)
  \/ \E t \in CommandCallers, code \in CodeSamples : Disarm(t, code)
  \/ \E t \in CommandCallers, code \in CodeSamples : Panic(t, code)
  \/ \E t \in CommandCallers, code \in CodeSamples : EnterUserProgramMode(t, code)
  \/ \E t \in CommandCallers, code \in CodeSamples : EnterInstallerProgramMode(t, code)
  \/ \E t \in CommandCallers : ExitProgramMode(t)
  \/ \E t \in CommandCallers, output_id \in OutputSamples, state \in AuxStateSamples :
       Aux(t, output_id, state)
  \/ \E t \in CommandCallers : WriteLockAcquired(t)
  \/ \E t \in CommandCallers \cup {"recv"} : ConnectLockAcquired(t)
  \/ \E t \in CommandCallers \cup {"recv"} : ConnectSucceeds(t)
  \/ \E t \in CommandCallers : PacingWake(t)

SpecCommand == InitCommand /\ [][NextCommand]_vars

\* Packet: construction, encoding, decoding, and frames damaged on the way
InitPacket == InitFrom(ClientInit(PcAlarmOnly, FALSE, FALSE))

NextPacket ==
  \/ \E cmd \in CommandType, data \in DataSamples, address \in AddressSamples,
        seq \in SeqSamples, timestamp \in TimestampSamples,
        is_user_interface_resp \in BOOLEAN, has_delay_marker \in BOOLEAN :
       Construct(cmd, data, address, seq, timestamp, is_user_interface_resp,
                 has_delay_marker)
  \/ Encode
  \/ \E str \in WireSamples : Receive(str)
  \/ \E i \in 0..1, c \in ChecksumChars : Corrupt(i, c)
  \/ Decode
  \/ ReEncode

SpecPacket == InitPacket /\ [][NextPacket]_vars

\* events decoded and encoded again, and bitfields packed and unpacked
InitEvent == InitFrom(ClientInit(PcAlarmOnly, FALSE, FALSE))

NextEvent ==
  \/ \E data \in SystemStatusData, address \in {NoAddress, 0}, seq \in {0, 1} :
       EventPacket("SYSTEM_STATUS", data, address, seq, FALSE)
  \/ \E data \in StatusUpdateData : EventPacket("USER_INTERFACE", data, 0, 0, TRUE)
  \/ \E data \in RequestData : EventPacket("USER_INTERFACE", data, 0, 0, FALSE)
  \/ EventDecode
  \/ EventEncode
  \/ /\ ev_pc = "idle"
     /\ \E name \in FlagEnumNames : \E items \in SUBSET DOMAIN FlagEnum(name) :
          Pack(name, items)
  \/ Unpack

SpecEvent == InitEvent /\ [][NextEvent]_vars

(***************************************************************************)
(* Properties                                                              *)
(***************************************************************************)
Last(seq) == seq[Len(seq)]

\* the transport writes a caller made
WritesBy(t) == Cardinality({i \in DOMAIN writes : writes[i].by = t})

\* the events of the frames read so far that decoded, in the order read
DecodedEvents ==
  LET ok == SelectSeq(frames_log, LAMBDA f : f.fault = "ok")
  IN [i \in 1..Len(ok) |-> ok[i].event]

\* C1 (as claimed): once a second request_and_wait_status_update call for the
\* same request id has cancelled the pending waiter of a first call, no
\* StatusUpdate is ever delivered to a waiter of the first call.
C1_OnlySecondWaiterServed == \A c \in Requesters : ~resumed[c]

\* C2: reading a frame that fails ASCII, Packet or Event decoding adds exactly
\* one to bad_received_packets, calls neither the event-received callback nor
\* Alarm.handle_event, leaves the Alarm, the pending-request table and the
\* waiters as they are, and the receive loop goes on reading.
C2_BadFrameCounted ==
  [][(/\ Len(frames_log') = Len(frames_log) + 1
      /\ Last(frames_log').fault \in FrameFaults)
     => /\ bad_received_packets' = bad_received_packets + 1
        /\ UNCHANGED <<cb_log, handled_log, alarm_vars, requests_awaiting_response, fut>>
        /\ pc'["recv"] = "reading"]_vars

C2_Witness ==
  /\ Len(frames_log) = 2
  /\ frames_log[1].fault = "ok"
  /\ frames_log[2].fault = "packet"
  /\ bad_received_packets = 1
  /\ arming_state = "ARMING"
  /\ requests_awaiting_response[ZONE_INPUT_UNSEALED] # NoFuture

\* C3 (as claimed): once close() has been called, the receive loop and the
\* update loop both end, so keepalive() returns.
C3_CloseEndsKeepalive == closed ~> (pc["recv"] = "done" /\ pc["upd"] = "done")

\* C4 (as claimed): send_command never raises to its caller.
C4_SendNeverRaises == \A t \in Senders : pc[t] # "raised"

\* C5: request_and_wait_status_update(id, retries=n) writes at most n status
\* requests; it returns None exactly when n waits in a row ended by timeout or
\* cancellation, and then it has made n attempts.
C5_BoundedRetries ==
  \A c \in Requesters :
    /\ WritesBy(c) <= retries_arg[c]
    /\ attempt[c] <= retries_arg[c]
    /\ pc[c] = "done" =>
         /\ (result[c] = NoEvent) <=> (timeouts[c] = retries_arg[c])
         /\ result[c] = NoEvent => attempt[c] = retries_arg[c]

C5_Witness ==
  /\ pc["r1"] = "done"
  /\ result["r1"] = NoEvent
  /\ retries_arg["r1"] = 2
  /\ timeouts["r1"] = 2
  /\ WritesBy("r1") = 2

\* C6: the events passed to Alarm.handle_event, and those passed to the
\* event-received callback when one is set, are exactly the events of the
\* frames that decoded, once each and in the order the frames were read.
C6_EveryEventForwardedInOrder ==
  /\ handled_log = DecodedEvents
  /\ cb_log = IF on_event_received THEN DecodedEvents ELSE <<>>

C6_Witness ==
  /\ on_event_received
  /\ Len(handled_log) = 2
  /\ handled_log[1].cls = "SystemStatusEvent"
  /\ handled_log[2].cls = "ZoneUpdate"
  /\ fut["r1"][1] = "done"

\* C7: connected_count is the number of successful transport connects, and the
\* transport connects successfully at most once more than it went down.
C7_OneConnectPerDisconnection ==
  /\ connected_count = transport_connects
  /\ transport_connects <= transport_downs + 1

C7_Witness ==
  /\ Len(connect_lock) = 2
  /\ connected_count = 1
  /\ transport_downs = 1
  /\ \E t \in Connectors : pc[t] = "connecting"

\* C8 (as claimed): a connect call entered with the transport connected and
\* more than update_interval + 30 seconds gone since the last received frame
\* closes the transport exactly once.
C8_SilentCallCloses ==
  \A t \in Connectors : conn_call[t].silent => conn_call[t].closes = 1

\* C8 (amended): a connect call entered more than update_interval + 30 seconds
\* after the later of the last received frame and the last successful connect
\* closes the transport exactly once and then makes a connect attempt.
C8_IdleCallClosesOnce ==
  \A t \in Connectors :
    conn_call[t].idle => conn_call[t].closes = 1 /\ conn_call[t].attempted

C8_Witness ==
  \E t \in Senders :
    /\ conn_call[t].idle
    /\ conn_call[t].closes = 1
    /\ connected_count = 2
    /\ pc[t] = "waiting"

\* C9: a fresh Alarm that handles ARMED_x, EXIT_DELAY_START, EXIT_DELAY_END
\* goes through ARMING and EXIT_DELAY to ARMED, in the mode of x all along.
C9_ArmSequence ==
  \A x \in ArmingMode :
    handled_log = <<SystemStatusEvent(x, 0),
                    SystemStatusEvent("EXIT_DELAY_START", 0),
                    SystemStatusEvent("EXIT_DELAY_END", 0)>>
    => /\ arming_state = "ARMED"
       /\ arming_mode = x
       /\ state_calls = <<<<"ARMING", x>>, <<"EXIT_DELAY", x>>, <<"ARMED", x>>>>

C9_Witness ==
  /\ handled_log = <<SystemStatusEvent("ARMED_NIGHT", 0),
                     SystemStatusEvent("EXIT_DELAY_START", 0),
                     SystemStatusEvent("EXIT_DELAY_END", 0)>>
  /\ arming_state = "ARMED"

\* C10: handling ALARM_RESTORE while DISARMED changes neither arming_state nor
\* arming_mode nor a zone and calls no callback; in every other state it
\* leaves the Alarm ARMED.
C10_AlarmRestore ==
  [][(/\ Len(handled_log') = Len(handled_log) + 1
      /\ Last(handled_log').cls = "SystemStatusEvent"
      /\ Last(handled_log').type = "ALARM_RESTORE")
     => IF arming_state = "DISARMED"
        THEN UNCHANGED <<arming_state, arming_mode, zones, state_calls, zone_calls>>
        ELSE arming_state' = "ARMED"]_vars

C10_Witness ==
  /\ Len(handled_log) = 2
  /\ handled_log[1].type = "DISARMED"
  /\ handled_log[2].type = "ALARM_RESTORE"
  /\ arming_state = "DISARMED"

\* C11: whenever request_and_wait_status_update(id) has returned a
\* StatusUpdate rather than None, the request_id of that event is id.
C11_ResultMatchesRequest ==
  \A c \in Requesters :
    (pc[c] = "done" /\ result[c] # NoEvent) => result[c].request_id = req[c]

C11_Witness ==
  /\ Len(frames_log) = 2
  /\ frames_log[1].event.request_id = ZONE_INPUT_UNSEALED
  /\ pc["r1"] = "done"
  /\ req["r1"] = ARMING
  /\ result["r1"] = ArmingUpdate({"AREA_1_ARMED"})
  /\ pc["r2"] = "waiting"
  /\ req["r2"] = ARMING

\* the transport writes made by the send_command coroutines of update()
UpdateWrites == SelectSeq(writes, LAMBDA w : w.by \in UpdateSenders)

\* C12: every update() makes exactly three transport writes, the status
\* requests S00, S05 and S14; it waits for no response; and no step of
\* update() changes the pending-request table or a waiter.
C12_UpdateWritesThree ==
  /\ [](/\ Len(UpdateWrites) <= 3 * updates
        /\ pc["upd"] = "sleep" =>
             /\ Len(UpdateWrites) = 3 * updates
             /\ \A k \in 1..updates :
                  {UpdateWrites[i].data : i \in (3 * k - 2)..(3 * k)} =
                    {StatusCommand(ZONE_INPUT_UNSEALED), StatusCommand(ZONE_IN_ALARM),
                     StatusCommand(ARMING)}
        /\ \A u \in UpdateSenders : pc[u] # "waiting")
  /\ [][(pc'["upd"] # pc["upd"] \/ \E u \in UpdateSenders : pc'[u] # pc[u])
         => UNCHANGED <<requests_awaiting_response, fut>>]_vars

C12_Witness ==
  /\ updates = 1
  /\ pc["upd"] = "sleep"
  /\ Len(UpdateWrites) = 3
  /\ frames_log = <<>>
  /\ pc["r1"] = "waiting"
  /\ requests_awaiting_response[ZONE_INPUT_UNSEALED] = <<"r1", 1>>
  /\ Last(writes).data = StatusCommand(ZONE_INPUT_UNSEALED)

\* C15 (as claimed): a Packet that the constructor accepted, encoded and then
\* decoded, gives back a Packet equal to it in every field.
C15_EncodeDecodeRoundTrip ==
  (codec_pc = "decoded" /\ pkt.ok /\ wire_orig = <<>>)
    => (decoded.ok /\ decoded.val = pkt.val)

\* C16 (as claimed): a frame that Packet.decode accepted, decoded and then
\* encoded, gives back the frame character for character.
C16_DecodeEncodeRoundTrip ==
  codec_pc = "reencoded" => reencoded = wire

\* Packet.decode's test for the shape of a UI request, on a whole frame
IsInputUIReq(str) == Slice(str, 5, 7) = <<"6", "0">>
\* the character of the checksum field that was replaced, and its replacement
ReplacedAt == CHOOSE i \in 1..Len(wire) : wire[i] # wire_orig[i]
OldChar == wire_orig[ReplacedAt]
NewChar == wire[ReplacedAt]
IsLowerHexLetter(c) == IndexIn(Lower, c) \in 1..6

Forbidden(a) ==
  \/ a.address # NoAddress /\ a.address \notin 0..15
  \/ /\ a.command = "USER_INTERFACE" /\ a.is_user_interface_resp
     /\ \/ Len(a.data) # 6
        \/ \E i \in 1..Len(a.data) : HexCharVal(a.data[i]) < 0
        \/ a.address = NoAddress
        \/ a.timestamp # NoTimestamp
        \/ a.seq # 0
        \/ a.has_delay_marker
  \/ /\ a.command = "USER_INTERFACE" /\ ~a.is_user_interface_resp
     /\ \/ Len(a.data) \notin 1..30
        \/ \E i \in 1..Len(a.data) : a.data[i] \notin VALID_UI_REQUEST_CHARACTERS
        \/ a.address = NoAddress
        \/ a.timestamp # NoTimestamp
        \/ a.seq # 0
  \/ /\ a.command = "SYSTEM_STATUS"
     /\ \/ Len(a.data) # 6
        \/ \E i \in 1..Len(a.data) : HexCharVal(a.data[i]) < 0
        \/ a.has_delay_marker

\* C18: the Packet constructor called with a forbidden field combination
\* raises a validation error and makes no Packet.
C18_ForbiddenRaises ==
  (codec_pc = "constructed" /\ Forbidden(pkt_args))
    => (~pkt.ok /\ pkt.err # "" /\ DOMAIN pkt = {"ok", "err"})

C18_Witness ==
  /\ codec_pc = "constructed"
  /\ pkt_args.command = "USER_INTERFACE"
  /\ pkt_args.is_user_interface_resp
  /\ pkt_args.has_delay_marker
  /\ pkt_args.address = 0
  /\ pkt = Raise("User-Interface status update responses do not use delay markers")

(***************************************************************************)
(* The command methods                                                     *)
(***************************************************************************)
\* the methods that send a code
CodeMethods == {"arm_away", "arm_home", "disarm", "panic", "enter_user_program_mode",
                "enter_installer_program_mode", "exit_program_mode"}

\* the text of a code in a command: nothing when no code is given
CodeText(code) == IF code = NoCode THEN <<>> ELSE code

\* the code can be typed on the keypad
IsKeypadCode(code) ==
  \A i \in 1..Len(CodeText(code)) : CodeText(code)[i] \in VALID_UI_REQUEST_CHARACTERS

\* the data each method is to send
CommandData(c) ==
  CASE c.method = "arm_away" -> <<"A">> \o CodeText(c.code) \o <<"E">>
    [] c.method = "arm_home" -> <<"H">> \o CodeText(c.code) \o <<"E">>
    [] c.method = "disarm" -> CodeText(c.code) \o <<"E">>
    [] c.method = "panic" -> <<"*">> \o CodeText(c.code) \o <<"E">>
    [] c.method = "enter_user_program_mode" -> <<"M">> \o CodeText(c.code) \o <<"E">>
    [] c.method = "enter_installer_program_mode" -> <<"M">> \o CodeText(c.code) \o <<"E">>
    [] c.method = "exit_program_mode" -> <<"M", "E">>
    [] c.method = "aux" ->
         <<Digits[c.output_id + 1], Digits[c.output_id + 1],
           IF c.state.value THEN "*" ELSE "#">>

\* the bytes written are a UI-request frame to address 0 with the data `data`
IsRequestFrame(str, data) ==
  LET d == Packet_decode(str)
  IN /\ Slice(str, 0, 2) = <<"8", "3">>
     /\ d.ok
     /\ d.val.command = "USER_INTERFACE"
     /\ ~d.val.is_user_interface_resp
     /\ d.val.address = 0
     /\ d.val.data = data

\* C13: a call of arm_away, arm_home, disarm, panic,
\* enter_user_program_mode, enter_installer_program_mode or
\* exit_program_mode never writes to the transport more than once; with a
\* code of keypad characters it does not raise; and when it has returned it
\* has written exactly once, a UI-request frame to address 0 whose data is
\* A{code}E, H{code}E, {code}E, *{code}E, M{code}E, M{code}E and ME
\* respectively.
C13_OneRequestFrame ==
  \A t \in CommandCallers :
    call[t].method \in CodeMethods =>
      /\ WritesBy(t) <= 1
      /\ IsKeypadCode(call[t].code) => pc[t] # "raised"
      /\ pc[t] = "done" =>
           /\ WritesBy(t) = 1
           /\ \A i \in DOMAIN writes :
                writes[i].by = t => IsRequestFrame(payload(writes[i]), CommandData(call[t]))

\* panic("1234") has returned after arm_away("1234") by another caller
C13_Witness ==
  /\ call["u1"] = Called("arm_away", <<"1", "2", "3", "4">>)
  /\ call["u2"] = Called("panic", <<"1", "2", "3", "4">>)
  /\ pc["u1"] = "done"
  /\ pc["u2"] = "done"
  /\ Len(writes) = 2
  /\ writes[1].by = "u1"
  /\ writes[2].data = <<"*", "1", "2", "3", "4", "E">>
  /\ payload(writes[2]) =
       <<"8", "3", "0", "0", "6", "6", "0", "*", "1", "2", "3", "4", "E", "6", "0", "?",
         CR, LF>>

\* C14: when aux(output_id, state) has returned, the data it has sent is
\* {id}{id}* for a state of AuxState.ACTIVE or True and {id}{id}# for a
\* state of AuxState.INACTIVE or False.
C14_AuxData ==
  \A t \in CommandCallers :
    (call[t].method = "aux" /\ pc[t] = "done") =>
      \A i \in DOMAIN writes :
        writes[i].by = t => IsRequestFrame(payload(writes[i]), CommandData(call[t]))

(***************************************************************************)
(* Events and bitfields                                                    *)
(***************************************************************************)
\* C19: when BaseEvent.decode has accepted a Packet p and the event has been
\* encoded, encode() has returned a Packet whose data equals p.data, for a
\* SystemStatusEvent and for every StatusUpdate subtype.
C19_EventDataRoundTrip ==
  ev_pc = "encoded" =>
    /\ encoded_event.ok
    /\ encoded_event.val.data = ev_packet.val.data

\* C20: for every flag enum of the status updates and every set S of its
\* members, the empty and the full set included, packing S gives a field of
\* four hexadecimal digits, and unpacking a packet that carries the field
\* returns exactly the members in S.
C20_UnpackPack ==
  /\ ev_pc \in {"packed", "unpacked"} => packed.ok /\ Len(packed.val) = 4
  /\ ev_pc = "unpacked" => unpacked = Return(flag_items)

\* zones 1 and 4 packed as 0900 and unpacked; and the full set of another enum
C20_Witness ==
  /\ ev_pc = "unpacked"
  /\ \/ /\ flag_enum = "ZoneUpdate.Zone"
        /\ flag_items = {"ZONE_1", "ZONE_4"}
        /\ packed = Return(<<"0", "9", "0", "0">>)
        /\ unpacked = Return({"ZONE_1", "ZONE_4"})
     \/ /\ flag_enum = "ArmingUpdate.ArmingStatus"
        /\ flag_items = ArmingStatus
        /\ packed = Return(<<"f", "f", "0", "7">>)
        /\ unpacked = Return(ArmingStatus)

\* C21: in every reachable state of the Alarm, arming_state = DISARMED
\* implies that arming_mode is None, whichever event caused the disarm.
C21_DisarmedHasNoMode == arming_state = "DISARMED" => arming_mode = None

\* C22: when an ARMED_x event is handled while arming_state is ARMING with a
\* different mode, arming_mode becomes x and the state-change callback is
\* called with (ARMING, x).
C22_ModeFollowsLastArmEvent ==
  [][(/\ Len(handled_log') = Len(handled_log) + 1
      /\ Last(handled_log').cls = "SystemStatusEvent"
      /\ Last(handled_log').type \in ArmingMode
      /\ arming_state = "ARMING"
      /\ arming_mode # Last(handled_log').type)
     => /\ arming_mode' = Last(handled_log').type
        /\ state_calls' = Append(state_calls, <<"ARMING", Last(handled_log').type>>)]_vars

\* C23: after request_and_wait_status_update(id) has returned None, the
\* pending-request table holds no future of that call in the slot of id.
C23_SlotEmptyAfterNone ==
  \A c \in Requesters :
    (pc[c] = "done" /\ result[c] = NoEvent)
    => \/ requests_awaiting_response[req[c]] = NoFuture
       \/ requests_awaiting_response[req[c]][1] # c

\* C24: a future that was cancelled, by a timeout or by a later request,
\* never gets a result; a future gets its result only in the step that reads
\* a frame, from the event of that frame, and only if it was registered and
\* pending before that step; a call that has returned keeps what it returned.
C24_NoStaleDelivery ==
  [][\A c \in Requesters :
       /\ pc[c] = "done" => result'[c] = result[c]
       /\ \A k \in DOMAIN fut[c] :
            /\ fut[c][k] = "cancelled" => fut'[c][k] = "cancelled"
            /\ (fut[c][k] # "done" /\ fut'[c][k] = "done")
               => /\ fut[c][k] = "pending"
                  /\ requests_awaiting_response[req[c]] = <<c, k>>
                  /\ Len(frames_log') = Len(frames_log) + 1
                  /\ fut_result'[c] = Last(frames_log').event
                  /\ Last(frames_log').event.request_id = req[c]]_vars

\* r1 has timed out and returned None, and the answer read afterwards found
\* its cancelled future in the slot and left it cancelled
C24_Witness ==
  /\ pc["r1"] = "done"
  /\ result["r1"] = NoEvent
  /\ fut["r1"][attempt["r1"]] = "cancelled"
  /\ pc["r2"] = "idle"
  /\ Len(frames_log) = 1
  /\ Last(frames_log).event.request_id = req["r1"]
  /\ requests_awaiting_response[req["r1"]] = NoFuture

\* C25: handling an UNSEALED or SEALED event of zone number z leaves the
\* triggered value of every zone other than z as it was, and handle_event
\* returns normally for every zone number 0..99.
C25_ZoneEventTouchesOnlyItsZone ==
  [][(/\ Len(handled_log') = Len(handled_log) + 1
      /\ Last(handled_log').cls = "SystemStatusEvent"
      /\ Last(handled_log').type \in {"UNSEALED", "SEALED"})
     => /\ ~alarm_raised'
        /\ \A i \in 1..NumZones : i # Last(handled_log').zone => zones'[i] = zones[i]]_vars

\* C26: whenever send_command calls the transport's write, the transport is
\* connected at that moment.  A step calls write for t when it appends a
\* write of t to the log or when the call of t raises; connecting and
\* writing may be one step, so the transport is looked at after the step.
C26_WriteWhileConnected ==
  [][\A t \in Senders :
       (\/ Len(writes') = Len(writes) + 1 /\ Last(writes').by = t
        \/ pc[t] # "raised" /\ pc'[t] = "raised")
       => link' # "down"]_vars

\* C27: with inference disabled and the Alarm not TRIGGERED, an ArmingUpdate
\* whose status contains AREA_1_ARMED, alone or with other flags, never
\* moves the Alarm to DISARMED.
C27_Area1ArmedNeverDisarms ==
  [][(/\ Len(handled_log') = Len(handled_log) + 1
      /\ Last(handled_log').cls = "ArmingUpdate"
      /\ ~infer_arming_state
      /\ arming_state \notin {"TRIGGERED", "DISARMED"}
      /\ arming_state' = "DISARMED")
     => "AREA_1_ARMED" \notin Last(handled_log').status]_vars

\* what handle_event can change of the Alarm, its callback calls included
alarm_fields == <<arming_state, arming_mode, zones, state_calls, zone_calls>>

\* C28: an EXIT_DELAY_END event moves the Alarm to ARMED when it is in
\* EXIT_DELAY and changes nothing in every other state; in particular a
\* DISARMED Alarm stays DISARMED.
C28_ExitDelayEndOnlyFromExitDelay ==
  [][(/\ Len(handled_log') = Len(handled_log) + 1
      /\ Last(handled_log').cls = "SystemStatusEvent"
      /\ Last(handled_log').type = "EXIT_DELAY_END")
     => IF arming_state = "EXIT_DELAY"
        THEN arming_state' = "ARMED"
        ELSE UNCHANGED alarm_fields]_vars

\* a disarm during the exit delay: the EXIT_DELAY_END that follows is ignored
C28_Witness ==
  /\ Len(handled_log) = 3
  /\ handled_log[1].type = "EXIT_DELAY_START"
  /\ handled_log[2].type = "DISARMED"
  /\ handled_log[3].type = "EXIT_DELAY_END"
  /\ arming_state = "DISARMED"
  /\ state_calls = <<<<"EXIT_DELAY", None>>, <<"DISARMED", None>>>>

\* the status of an ArmingUpdate is neither exactly {AREA_1_ARMED} nor holds
\* both AREA_1_ARMED and AREA_1_FULLY_ARMED
NoArmedPattern(status) ==
  /\ status # {"AREA_1_ARMED"}
  /\ ~("AREA_1_ARMED" \in status /\ "AREA_1_FULLY_ARMED" \in status)

\* C29: with inference enabled, an ArmingUpdate whose status is neither
\* exactly {AREA_1_ARMED} nor holds both AREA_1_ARMED and AREA_1_FULLY_ARMED
\* moves an UNKNOWN Alarm to DISARMED and changes nothing in any other state.
C29_InferenceKeepsKnownState ==
  [][(/\ Len(handled_log') = Len(handled_log) + 1
      /\ Last(handled_log').cls = "ArmingUpdate"
      /\ infer_arming_state
      /\ NoArmedPattern(Last(handled_log').status))
     => IF arming_state = "UNKNOWN"
        THEN arming_state' = "DISARMED"
        ELSE UNCHANGED alarm_fields]_vars

\* an ArmingUpdate without flags arrives while the Alarm is ARMING
C29_Witness ==
  /\ infer_arming_state
  /\ Len(handled_log) = 2
  /\ handled_log[1].type = "ARMED_AWAY"
  /\ handled_log[2].cls = "ArmingUpdate"
  /\ handled_log[2].status = {}
  /\ arming_state = "ARMING"
  /\ arming_mode = "ARMED_AWAY"

\* C30: while arming_state is TRIGGERED, handling an ArmingUpdate of any
\* status changes neither arming_state nor arming_mode nor a zone and calls
\* no callback.
C30_TriggeredIgnoresArmingUpdate ==
  [][(/\ Len(handled_log') = Len(handled_log) + 1
      /\ Last(handled_log').cls = "ArmingUpdate"
      /\ arming_state = "TRIGGERED")
     => UNCHANGED alarm_fields]_vars

\* an ArmingUpdate that reports area 1 fully armed arrives during an alarm
C30_Witness ==
  /\ Len(handled_log) = 2
  /\ handled_log[1].type = "ALARM"
  /\ handled_log[2].cls = "ArmingUpdate"
  /\ handled_log[2].status = {"AREA_1_ARMED", "AREA_1_FULLY_ARMED"}
  /\ arming_state = "TRIGGERED"
  /\ state_calls = <<<<"TRIGGERED", None>>>>

\* the calls of the zone-change callback made by the step
NewZoneCalls == SubSeq(zone_calls', Len(zone_calls) + 1, Len(zone_calls'))

\* C31: after a ZoneUpdate with request id ZONE_INPUT_UNSEALED is handled,
\* every zone i is triggered exactly if i is in included_zones, and the
\* zone-change callback was called once, with (i, new value), for each zone
\* whose value changed and for no other zone.
C31_ZoneInputUpdate ==
  [][(/\ Len(handled_log') = Len(handled_log) + 1
      /\ Last(handled_log').cls = "ZoneUpdate"
      /\ Last(handled_log').request_id = ZONE_INPUT_UNSEALED)
     => /\ \A i \in 1..NumZones :
             zones'[i] = BoolStr(i \in Last(handled_log').included_zones)
        /\ Len(zone_calls') >= Len(zone_calls)
        /\ SubSeq(zone_calls', 1, Len(zone_calls)) = zone_calls
        /\ \A i \in 1..NumZones :
             LET calls == {k \in DOMAIN NewZoneCalls : NewZoneCalls[k][1] = i}
             IN IF zones'[i] # zones[i]
                THEN /\ Cardinality(calls) = 1
                     /\ \A k \in calls : NewZoneCalls[k] = <<i, zones'[i]>>
                ELSE calls = {}
        /\ \A k \in DOMAIN NewZoneCalls : NewZoneCalls[k][1] \in 1..NumZones]_vars

\* zones 1 and 16 were unsealed; an update that names zones 2 and 16 seals
\* zone 1, unseals zone 2 and reports nothing of the zones that stay
C31_Witness ==
  /\ handled_log = <<ZoneUpdate(ZONE_INPUT_UNSEALED, {1, NumZones}),
                     ZoneUpdate(ZONE_INPUT_UNSEALED, {2, NumZones})>>
  /\ zones[1] = "False" /\ zones[2] = "True" /\ zones[NumZones] = "True"
  /\ Len(zone_calls) = NumZones + 2
  /\ SubSeq(zone_calls, NumZones + 1, NumZones + 2) = <<<<1, "False">>, <<2, "True">>>>

\* C32: a ZoneUpdate with request id ZONE_IN_ALARM moves the Alarm to
\* TRIGGERED if it includes a zone; if it includes none it moves TRIGGERED to
\* UNKNOWN and leaves every other arming state as it is; it never changes a
\* zone's triggered value.
C32_ZoneAlarmUpdate ==
  [][(/\ Len(handled_log') = Len(handled_log) + 1
      /\ Last(handled_log').cls = "ZoneUpdate"
      /\ Last(handled_log').request_id = ZONE_IN_ALARM)
     => /\ zones' = zones
        /\ zone_calls' = zone_calls
        /\ arming_state' = IF Last(handled_log').included_zones # {} THEN "TRIGGERED"
                           ELSE IF arming_state = "TRIGGERED" THEN "UNKNOWN"
                           ELSE arming_state]_vars

\* zone 1 in alarm, then no zone in alarm: TRIGGERED and back to UNKNOWN
C32_Witness ==
  /\ handled_log = <<SystemStatusEvent("DISARMED", 0),
                     ZoneUpdate(ZONE_IN_ALARM, {1}),
                     ZoneUpdate(ZONE_IN_ALARM, {})>>
  /\ arming_state = "UNKNOWN"
  /\ state_calls = <<<<"DISARMED", None>>, <<"TRIGGERED", None>>, <<"UNKNOWN", None>>>>

\* C33: handling an event calls the state-change callback only if
\* arming_state has changed to a different value in that call, and calls the
\* zone-change callback for a zone only if the triggered value of that zone
\* has changed in that call; an event that leaves the Alarm as it was calls
\* neither.
C33_CallbacksOnlyOnChange ==
  [][Len(handled_log') = Len(handled_log) + 1
     => /\ state_calls' # state_calls
           => /\ arming_state' # arming_state
              /\ state_calls' = Append(state_calls, <<arming_state', arming_mode'>>)
        /\ SubSeq(zone_calls', 1, Len(zone_calls)) = zone_calls
        /\ \A k \in DOMAIN NewZoneCalls :
             /\ NewZoneCalls[k][1] \in 1..NumZones
             /\ zones'[NewZoneCalls[k][1]] # zones[NewZoneCalls[k][1]]
             /\ zones'[NewZoneCalls[k][1]] = NewZoneCalls[k][2]]_vars

\* the twelve timestamp digits of a frame with CRLF whose start byte says it
\* carries a timestamp: the characters in front of the checksum
TimestampDigits(str) == SubSeq(str, Len(str) - 15, Len(str) - 4)

\* a frame with a verifying checksum whose timestamp has minute 60, an hour
\* in 00..23 and valid other fields
MinuteSixtyFrame(str) ==
  /\ Len(str) >= 22
  /\ EndsWith(str, <<CR, LF>>)
  /\ Slice(str, 0, 2) \in {<<"8", "6">>, <<"8", "7">>}
  /\ ChecksumError(SubSeq(str, 1, Len(str) - 2), FALSE) = ""
  /\ LET ts == TimestampDigits(str)
     IN /\ IntDec2(Slice(ts, 2, 4)) \in 1..12
        /\ IntDec2(Slice(ts, 4, 6)) \in 1..DaysInMonth(2000 + IntDec2(Slice(ts, 0, 2)), IntDec2(Slice(ts, 2, 4)))
        /\ IntDec2(Slice(ts, 6, 8)) \in 0..23
        /\ Slice(ts, 8, 10) = <<"6", "0">>
        /\ IntDec2(Slice(ts, 10, 12)) \in 0..59

\* C38: decoding a frame whose timestamp has minute 60, any hour 00..23 and
\* otherwise valid fields succeeds and yields minute 0 and the hour
\* incremented by 1.
C38_MinuteSixtyDecodes ==
  (codec_pc = "decoded" /\ MinuteSixtyFrame(wire))
    => /\ decoded.ok
       /\ decoded.val.timestamp.minute = 0
       /\ decoded.val.timestamp.hour = IntDec2(Slice(TimestampDigits(wire), 6, 8)) + 1

\* the command string violates the constraints of a UI request
InvalidCommand(command_string) ==
  \/ Len(command_string) = 0
  \/ Len(command_string) > USER_INTERFACE_REQUEST_DATA_SIZE_MAX
  \/ ~is_valid_ui_data_char(command_string)

\* t has just called send_command: it leaves "idle" in this step
SendCalled(t) == pc[t] = "idle" /\ pc'[t] # "idle" /\ call'[t].method = "send_command"

\* C36: send_command with an empty command, one of more than 30
\* characters or one with a character that is not allowed raises at once:
\* nothing is written, no lock is taken, no connect is attempted and the
\* pending-request table and the futures are as before, also when a future
\* was passed.
C36_InvalidCommandRaisesFirst ==
  [][\A t \in Senders :
       (SendCalled(t) /\ InvalidCommand(command'[t]))
       => /\ pc'[t] = "raised"
          /\ UNCHANGED <<writes, requests_awaiting_response, write_lock, connect_lock,
                         link, conn_call, transport_connects, last_sent_time>>
          /\ \A c \in Requesters \ {t} : fut'[c] = fut[c]]_vars

\* r1 holds the pending request for S00; r2 calls send_command with a future
\* and a command that is not allowed, and raises
C36_Witness ==
  /\ pc["r1"] = "waiting"
  /\ requests_awaiting_response[ZONE_INPUT_UNSEALED] = <<"r1", 1>>
  /\ fut["r1"][1] = "pending"
  /\ pc["r2"] = "raised"
  /\ command["r2"] = <<"S", " ", "0">>
  /\ Len(writes) = 1

\* C37: a send_command whose address is outside 0..15 raises and writes
\* nothing.
C37_BadAddressRaises ==
  /\ \A t \in Senders : address_arg[t] \notin ADDRESS_MIN..ADDRESS_MAX => pc[t] = "raised"
  /\ \A i \in DOMAIN writes :
       address_arg[writes[i].by] \in ADDRESS_MIN..ADDRESS_MAX

\* the coroutines in the queue of a lock: its holder and those waiting
InLock(lock) == {lock[i] : i \in DOMAIN lock}

\* a coroutine that waits for a lock another coroutine holds
Blocked(t) ==
  \/ pc[t] = "write_lock" /\ Head(write_lock) # t
  \/ pc[t] = "connect_lock" /\ Head(connect_lock) # t

\* C35: the locks are taken write-then-connect by send_command and connect
\* alone by the receive loop: whoever holds or waits for the connect lock is
\* the receive loop or the holder of the write lock, the receive loop never
\* takes the write lock, the holder of the connect lock waits for no lock
\* and the holder of the write lock waits at most for the connect lock, so no
\* coroutines wait in a circle.
C35_LockOrder ==
  /\ \A t \in InLock(connect_lock) :
       t = "recv" \/ (write_lock # <<>> /\ Head(write_lock) = t)
  /\ "recv" \notin InLock(write_lock)
  /\ pc["recv"] # "write_lock"
  /\ connect_lock # <<>> => ~Blocked(Head(connect_lock))
  /\ write_lock # <<>> /\ Blocked(Head(write_lock)) => pc[Head(write_lock)] = "connect_lock"
  /\ \A t \in Tasks :
       /\ pc[t] = "write_lock" => t \in InLock(write_lock)
       /\ pc[t] = "connect_lock" => t \in InLock(connect_lock)

\* u2 holds the write lock in its pacing sleep, u3 and r1 wait for it, and
\* the receive loop has read the answer to the request r1 registered when
\* it joined the queue
C35_Witness ==
  /\ write_lock = <<"u2", "u3", "r1">>
  /\ pc["u2"] = "pacing"
  /\ pc["r1"] = "write_lock"
  /\ fut["r1"][1] = "done"
  /\ pc["recv"] = "reading"

\* C39: after disarm() has returned the emulator stays DISARMED until the
\* next command: no transition scheduled before the disarm takes effect.
C39_DisarmCancels == emu_disarmed => emu_state = "DISARMED"

\* the emulator state the client state stands for
Corresponds(client_state, server_state) ==
  \/ client_state = "DISARMED" /\ server_state = "DISARMED"
  \/ client_state = "EXIT_DELAY" /\ server_state = "EXIT_DELAY"
  \/ client_state = "ARMED" /\ server_state = "ARMED"
  \/ client_state = "ENTRY_DELAY" /\ server_state = "ENTRY_DELAY"
  \/ client_state = "TRIGGERED" /\ server_state = "TRIPPED"

\* C40: once the client has handled every event the emulator has written,
\* at least one, its arming_state corresponds to the emulator state.
C40_ClientTracksEmulator ==
  emu_event_queue = <<>> /\ emu_events_written >= 1 => Corresponds(arming_state, emu_state)

\* C34: each write of send_command is called at least 0.2 seconds after the
\* write before it completed.
C34_GapFromCompletion ==
  \A i \in 1..(Len(pace_writes) - 1) :
    pace_writes[i + 1].start - pace_writes[i].end >= DELAY_TENTHS_BETWEEN_SENDS

====
